---------------------------- MODULE Spec2Model ----------------------------
(***************************************************************************)
(* A model of the plan orchestration and self-healing execution engine of  *)
(* the phone_unlock backend:                                               *)
(*   backend/agents/deep_agents.py          workers, dispatcher and the    *)
(*                                          orchestrator loop              *)
(*   backend/agents/strategic_intelligence.py   the strategy planner       *)
(*   backend/service/self-healing.py        the failure classifier and     *)
(*                                          the recovery executor          *)
(*                                                                         *)
(* Python strings are sequences of one-character strings, so that the      *)
(* substring tests ("usb" in error.lower()) and str.lower() are computed   *)
(* as the code computes them.                                              *)
(***************************************************************************)
EXTENDS Integers, Sequences, FiniteSets, TLC

---------------------------------------------------------------------------
(* Strings *)

EmptyStr ==
    << >>

UpperCase ==
    {"A", "B", "C", "D", "E", "F", "G", "H", "I", "J", "K", "L", "M", "N", "O", "P", "Q", "R", "S", "T", "U", "V", "W", "X", "Y", "Z"}

ToLower ==
    ("A" :> "a") @@ ("B" :> "b") @@ ("C" :> "c") @@ ("D" :> "d") @@ ("E" :> "e") @@ ("F" :> "f") @@ ("G" :> "g")
    @@ ("H" :> "h") @@ ("I" :> "i") @@ ("J" :> "j") @@ ("K" :> "k") @@ ("L" :> "l") @@ ("M" :> "m") @@ ("N" :> "n")
    @@ ("O" :> "o") @@ ("P" :> "p") @@ ("Q" :> "q") @@ ("R" :> "r") @@ ("S" :> "s") @@ ("T" :> "t") @@ ("U" :> "u")
    @@ ("V" :> "v") @@ ("W" :> "w") @@ ("X" :> "x") @@ ("Y" :> "y") @@ ("Z" :> "z")

\* str.lower()
Lower(s) ==
    [k \in 1..Len(s) |-> IF s[k] \in UpperCase THEN ToLower[s[k]] ELSE s[k]]

\* the Python test `sub in s` on strings
StrIn(sub, s) ==
    \E k \in 1..(Len(s) - Len(sub) + 1) : SubSeq(s, k, k + Len(sub) - 1) = sub

\* step types (Step.type)
usb_communication ==
    <<"u", "s", "b", "_", "c", "o", "m", "m", "u", "n", "i", "c", "a", "t", "i", "o", "n">>
vulnerability_exploit ==
    <<"v", "u", "l", "n", "e", "r", "a", "b", "i", "l", "i", "t", "y", "_", "e", "x", "p", "l", "o", "i", "t">>
pattern_analysis ==
    <<"p", "a", "t", "t", "e", "r", "n", "_", "a", "n", "a", "l", "y", "s", "i", "s">>
security_bypass ==
    <<"s", "e", "c", "u", "r", "i", "t", "y", "_", "b", "y", "p", "a", "s", "s">>
\* two step types the dispatcher's mapping does not know
USB_unlock ==
    <<"U", "S", "B", "_", "u", "n", "l", "o", "c", "k">>
firmware_flash ==
    <<"f", "i", "r", "m", "w", "a", "r", "e", "_", "f", "l", "a", "s", "h">>

kw_usb ==
    <<"u", "s", "b">>
kw_vulnerability ==
    <<"v", "u", "l", "n", "e", "r", "a", "b", "i", "l", "i", "t", "y">>
kw_timeout ==
    <<"t", "i", "m", "e", "o", "u", "t">>
kw_USB ==
    <<"U", "S", "B">>
kw_driver ==
    <<"d", "r", "i", "v", "e", "r">>
kw_permission ==
    <<"p", "e", "r", "m", "i", "s", "s", "i", "o", "n">>
kw_connection ==
    <<"c", "o", "n", "n", "e", "c", "t", "i", "o", "n">>
kw_security ==
    <<"s", "e", "c", "u", "r", "i", "t", "y">>
kw_lock ==
    <<"l", "o", "c", "k">>

\* f"No agent available for step type: {step_type}" without the step type
NoAgentPrefix ==
    <<"N", "o", " ", "a", "g", "e", "n", "t", " ", "a", "v", "a", "i", "l", "a", "b", "l", "e", " ", "f", "o", "r", " ", "s", "t", "e", "p", " ", "t", "y", "p", "e", ":", " ">>

\* error texts a worker's failed result may carry
err_timeout ==
    <<"C", "o", "n", "n", "e", "c", "t", "i", "o", "n", " ", "t", "i", "m", "e", "o", "u", "t">>
err_usb ==
    <<"U", "S", "B", " ", "d", "e", "v", "i", "c", "e", " ", "n", "o", "t", " ", "r", "e", "s", "p", "o", "n", "d", "i", "n", "g">>

---------------------------------------------------------------------------
(* Bounds *)

\* longest plan (number of steps)
MaxSteps ==
    3

\* number of execute_unlock_plan coroutines
NumRuns ==
    2

Runs ==
    1..NumRuns

\* number of handle_error coroutines
NumHandlers ==
    2

Handlers ==
    1..NumHandlers

\* longest error message (number of words)
MaxWords ==
    2

---------------------------------------------------------------------------
(* deep_agents.py: workers and dispatcher *)

\* the keys of DeepAgents.agents after initialize()
AgentKeys ==
    {"usb_communication", "vulnerability_exploit", "pattern_analysis"}

\* DeepAgent.capabilities of the three shipped agents
capabilities ==
    [a \in AgentKeys |->
        CASE a = "usb_communication" -> {"usb_control", "device_handshake", "protocol_analysis"}
          [] a = "vulnerability_exploit" -> {"vulnerability_scanning", "exploit_development", "payload_execution"}
          [] a = "pattern_analysis" -> {"pattern_recognition", "behavior_analysis", "security_assessment"}]

\* the value of self.agents.get(agent_key) on a miss
None ==
    "None"

\* the step types plans are built from
StepTypes ==
    {usb_communication, vulnerability_exploit, pattern_analysis, security_bypass, USB_unlock, firmware_flash}

\* the pools a DeepAgents object may hold: {} after construction, all three
\* agents after initialize(), or any other subset registered by hand
Pools ==
    SUBSET AgentKeys

ErrorTexts ==
    {err_timeout, err_usb}

\* what a worker's _perform_task may do under the DeepAgent contract: return
\* a result dict (the three shipped agents return success = True), return a
\* failed result with an error text, or raise
TaskOutcomes ==
    {[kind |-> "return", result |-> [success |-> TRUE]]}
    \cup {[kind |-> "return", result |-> [success |-> FALSE, error |-> e]] : e \in ErrorTexts}
    \cup {[kind |-> "raise", result |-> [success |-> FALSE]]}

VARIABLES
    agents,      \* DeepAgents.agents: the keys present in the pool
    status,      \* DeepAgent.status of each agent object
    plan,        \* per run: plan["steps"], each step given by its type
    pc,          \* per run: where the execute_unlock_plan coroutine stands
    idx,         \* per run: index of the step the for loop is at
    results,     \* per run: the local list `results`
    report,      \* per run: the dict execute_unlock_plan returned
    calls,       \* per run (history): the _execute_step calls made so far
    performs,    \* per run (history): number of _perform_task invocations
    heals,       \* per run (history): number of _execute_recovery_plan calls
    analysis,         \* the dict _get_device_analysis returns for the device
    strategy_success, \* what _calculate_strategy_success returns per strategy (percent)
    unlock_plan,      \* the plan create_unlock_plan returned last
    alternatives,     \* the list get_alternatives returned last
    strategy_database, \* StrategicIntelligence.strategy_database
    incident_history, \* SelfHealingSystem.incident_history
    handler_pc,       \* per handle_error call: where the coroutine stands
    he_error,         \* per call: the error and context it was given
    he_incident,      \* per call: position of its incident dict in the history
    he_recovery_plan, \* per call: what _analyze_error returned
    he_recovery_result, \* per call: the dict handle_error returned
    recoveries,       \* per call (history): recovery methods started
    fault,            \* per call (history): what raised inside the subsystem
    status_report,    \* the dict SelfHealingSystem.get_status returned last
    response,         \* per run: the dict app.start_unlock returned for it
    process_logs,     \* AIHelpers.process_logs
    live_progress,    \* AIHelpers.live_progress
    logged_events     \* (history) every entry _log_event ever appended, in order

orch_vars ==
    <<agents, status, plan, pc, idx, results, report, calls, performs, heals>>

planner_vars ==
    <<analysis, strategy_success, unlock_plan, alternatives, strategy_database>>

healing_vars ==
    <<incident_history, handler_pc, he_error, he_incident, he_recovery_plan, he_recovery_result, recoveries, fault,
      status_report>>

app_vars ==
    <<response>>

helper_vars ==
    <<process_logs, live_progress, logged_events>>

vars ==
    <<orch_vars, planner_vars, healing_vars, app_vars, helper_vars>>

\* dict.get(key, default) for the two keys the orchestrator reads
Get_success(r) ==
    IF "success" \in DOMAIN r THEN r.success ELSE FALSE

Get_error(r) ==
    IF "error" \in DOMAIN r THEN r.error ELSE EmptyStr

agent_mapping ==
    (usb_communication :> "usb_communication")
    @@ (vulnerability_exploit :> "vulnerability_exploit")
    @@ (pattern_analysis :> "pattern_analysis")
    @@ (security_bypass :> "vulnerability_exploit")

_select_agent_for_step(step_type, pool) ==
    LET agent_key == IF step_type \in DOMAIN agent_mapping
                     THEN agent_mapping[step_type] ELSE ""
    IN  IF agent_key \in pool THEN agent_key ELSE None

\* a routing miss reported as an empty result dict
NoAgentResultBare(step_type) ==
    [success |-> FALSE]

\* the result _execute_step returns when no agent was selected
NoAgentResult(step_type) ==
    [success |-> FALSE, error |-> NoAgentPrefix \o step_type]

\* a classifier that finds every failure recoverable
_analyze_failure_always(result) ==
    LET error == Get_error(result)
    IN  IF StrIn(kw_vulnerability, Lower(error))
        THEN [can_recover |-> TRUE, recovery_method |-> "alternative_exploit"]
        ELSE [can_recover |-> TRUE, recovery_method |-> "usb_driver_reset"]

\* a classifier that tests the error text as given, without lower()
_analyze_failure_case_sensitive(result) ==
    LET error == Get_error(result)
    IN  IF StrIn(kw_usb, error)
        THEN [can_recover |-> TRUE, recovery_method |-> "usb_driver_reset"]
        ELSE IF StrIn(kw_vulnerability, error)
        THEN [can_recover |-> TRUE, recovery_method |-> "alternative_exploit"]
        ELSE [can_recover |-> FALSE, recovery_method |-> ""]

_analyze_failure(result) ==
    LET error == Get_error(result)
    IN  IF StrIn(kw_usb, Lower(error))
        THEN [can_recover |-> TRUE, recovery_method |-> "usb_driver_reset"]
        ELSE IF StrIn(kw_vulnerability, Lower(error))
        THEN [can_recover |-> TRUE, recovery_method |-> "alternative_exploit"]
        ELSE [can_recover |-> FALSE, recovery_method |-> ""]

_execute_recovery_plan(recovery_plan) ==
    [recovered |-> TRUE, recovery_method |-> recovery_plan.recovery_method]

\* the entry appended for a retry: {"retry_result": result}
RetryEntry(result) ==
    [retry_result |-> result]

IsRetryEntry(r) ==
    "retry_result" \in DOMAIN r

\* any() where the code has all()
PlanSuccessAny(res) ==
    \E j \in 1..Len(res) : ~IsRetryEntry(res[j]) /\ Get_success(res[j])

\* success = all(r.get("success", False) for r in results if "retry_result" not in r)
PlanSuccess(res) ==
    \A j \in 1..Len(res) : ~IsRetryEntry(res[j]) => Get_success(res[j])

\* a report that counts the plan's steps instead of the recorded results
MakeReportCountsSteps(res) ==
    LET success == PlanSuccess(res)
    IN  [success |-> success,
         steps_executed |-> Cardinality({j \in 1..Len(res) : ~IsRetryEntry(res[j])}),
         final_status |-> IF success THEN "unlocked" ELSE "partially_locked"]

\* a report whose final_status follows the last recorded attempt alone
MakeReportStatusOfLast(res) ==
    LET success == PlanSuccess(res)
        last == res[Len(res)]
        last_ok == IF res = << >> THEN TRUE
                   ELSE IF IsRetryEntry(last) THEN Get_success(last.retry_result)
                   ELSE Get_success(last)
    IN  [success |-> success,
         steps_executed |-> Len(res),
         final_status |-> IF last_ok THEN "unlocked" ELSE "partially_locked"]

MakeReport(res) ==
    LET success == PlanSuccess(res)
    IN  [success |-> success,
         steps_executed |-> Len(res),
         final_status |-> IF success THEN "unlocked" ELSE "partially_locked"]

NoReport ==
    [success |-> FALSE, steps_executed |-> 0, final_status |-> "none"]

---------------------------------------------------------------------------
(* deep_agents.py: DeepAgents.execute_unlock_plan *)

\* A coroutine runs without interruption from one suspension point to the
\* next. It suspends inside _perform_task (every shipped agent awaits
\* asyncio.sleep there) and inside _execute_recovery_plan (asyncio.sleep);
\* a routing miss and _analyze_failure do not suspend. The operators below
\* compute the run-local state [pc, idx, results, calls] at the next
\* suspension point or at the return.
RECURSIVE LoopFrom(_, _, _, _, _)
RECURSIVE AfterOriginal(_, _, _, _, _, _)

\* a loop that leaves out every second step
NextStepSkips(i) ==
    i + 2

\* where the loop goes once the entry for step i's original result is handled
\* and no retry is due (the next iteration of `for step in steps`)
NextStep(i) ==
    i + 1

\* _trigger_self_healing up to its first suspension: "suspend" when the
\* recovery plan is executed, else the dict it returns at once
_trigger_self_healing(result) ==
    LET recovery_plan == _analyze_failure(result)
    IN  IF recovery_plan.can_recover
        THEN [suspend |-> TRUE, recovered |-> FALSE]
        ELSE [suspend |-> FALSE, recovered |-> FALSE]

\* the head of the for loop at step i: result = await self._execute_step(step)
LoopFrom(steps, pool, i, res, log) ==
    IF i > Len(steps)
    THEN [pc |-> "done", idx |-> i, results |-> res, calls |-> log]
    ELSE LET agent == _select_agent_for_step(steps[i], pool)
             log1 == Append(log, [step |-> i, agent |-> agent, retry |-> FALSE])
         IN  IF agent # None
             THEN [pc |-> "working", idx |-> i, results |-> res, calls |-> log1]
             ELSE AfterOriginal(steps, pool, i, res, log1, NoAgentResult(steps[i]))

\* the loop breaks at the first failed result that cannot be recovered
AfterOriginalAborts(steps, pool, i, res, log, result) ==
    LET res1 == Append(res, result)
    IN  IF ~Get_success(result) /\ _trigger_self_healing(result).suspend
        THEN [pc |-> "healing", idx |-> i, results |-> res1, calls |-> log]
        ELSE IF ~Get_success(result)
        THEN [pc |-> "done", idx |-> i, results |-> res1, calls |-> log]
        ELSE LoopFrom(steps, pool, NextStep(i), res1, log)

\* results.append(result); if not result.get("success", False): self-healing
AfterOriginal(steps, pool, i, res, log, result) ==
    LET res1 == Append(res, result)
    IN  IF ~Get_success(result) /\ _trigger_self_healing(result).suspend
        THEN [pc |-> "healing", idx |-> i, results |-> res1, calls |-> log]
        ELSE LoopFrom(steps, pool, NextStep(i), res1, log)

\* the retry's result handled like an original result: healed and retried again
AfterRetryHealsAgain(steps, pool, i, res, log, result) ==
    LET res1 == Append(res, RetryEntry(result))
    IN  IF ~Get_success(result) /\ _trigger_self_healing(result).suspend
        THEN [pc |-> "healing", idx |-> i, results |-> res1, calls |-> log]
        ELSE LoopFrom(steps, pool, NextStep(i), res1, log)

\* results.append({"retry_result": result}), then the next iteration
AfterRetry(steps, pool, i, res, log, result) ==
    LoopFrom(steps, pool, NextStep(i), Append(res, RetryEntry(result)), log)

\* healing_result is back: if healing_result.get("recovered", False): retry
AfterHealing(steps, pool, i, res, log, healing_result) ==
    IF healing_result.recovered
    THEN LET agent == _select_agent_for_step(steps[i], pool)
             log1 == Append(log, [step |-> i, agent |-> agent, retry |-> TRUE])
         IN  IF agent # None
             THEN [pc |-> "retrying", idx |-> i, results |-> res, calls |-> log1]
             ELSE AfterRetry(steps, pool, i, res, log1, NoAgentResult(steps[i]))
    ELSE LoopFrom(steps, pool, NextStep(i), res, log)

\* DeepAgent.execute_task up to the await: self.status = "working"
execute_task_begin(st, agent) ==
    [st EXCEPT ![agent] = "working"]

\* DeepAgent.execute_task after the await: "completed" on a return, "error"
\* (and re-raise) on an exception
execute_task_end(st, agent, outcome) ==
    [st EXCEPT ![agent] = IF outcome.kind = "return" THEN "completed" ELSE "error"]

\* a variant that keeps the result list in an attribute of the DeepAgents
\* object, shared by all runs
ResumeSharedResults(r, loc, st) ==
    LET dispatched == loc.pc \in {"working", "retrying"}
        agent == _select_agent_for_step(plan[r][loc.idx], agents)
    IN  /\ pc' = [pc EXCEPT ![r] = loc.pc]
        /\ idx' = [idx EXCEPT ![r] = loc.idx]
        /\ results' = [q \in Runs |-> loc.results]
        /\ calls' = [calls EXCEPT ![r] = loc.calls]
        /\ status' = IF dispatched THEN execute_task_begin(st, agent) ELSE st
        /\ performs' = [performs EXCEPT ![r] = IF dispatched THEN @ + 1 ELSE @]
        /\ heals' = [heals EXCEPT ![r] = IF loc.pc = "healing" THEN @ + 1 ELSE @]
        /\ report' = [report EXCEPT ![r] = IF loc.pc = "done" THEN MakeReport(loc.results) ELSE @]
        /\ UNCHANGED <<agents, plan>>
        /\ UNCHANGED planner_vars
        /\ UNCHANGED healing_vars
        /\ UNCHANGED app_vars
        /\ UNCHANGED helper_vars

\* the run-local state `loc` becomes run r's state; st is the agents' status
\* after what the coroutine did so far in this step
Resume(r, loc, st) ==
    LET dispatched == loc.pc \in {"working", "retrying"}
        agent == _select_agent_for_step(plan[r][loc.idx], agents)
    IN  /\ pc' = [pc EXCEPT ![r] = loc.pc]
        /\ idx' = [idx EXCEPT ![r] = loc.idx]
        /\ results' = [results EXCEPT ![r] = loc.results]
        /\ calls' = [calls EXCEPT ![r] = loc.calls]
        /\ status' = IF dispatched THEN execute_task_begin(st, agent) ELSE st
        /\ performs' = [performs EXCEPT ![r] = IF dispatched THEN @ + 1 ELSE @]
        /\ heals' = [heals EXCEPT ![r] = IF loc.pc = "healing" THEN @ + 1 ELSE @]
        /\ report' = [report EXCEPT ![r] = IF loc.pc = "done" THEN MakeReport(loc.results) ELSE @]
        /\ UNCHANGED <<agents, plan>>
        /\ UNCHANGED planner_vars
        /\ UNCHANGED healing_vars
        /\ UNCHANGED app_vars
        /\ UNCHANGED helper_vars

\* execute_unlock_plan(plan) is called and runs to its first suspension;
\* `loc` is the value the coroutine's local state has there
Start(r) ==
    /\ pc[r] = "start"
    /\ \E loc \in {LoopFrom(plan[r], agents, 1, << >>, << >>)} : Resume(r, loc, status)

\* the exception leaves execute_task, _execute_step and execute_unlock_plan
\* (`except Exception: ... raise`)
Raise(r, st) ==
    /\ pc' = [pc EXCEPT ![r] = "raised"]
    /\ status' = st
    /\ UNCHANGED <<agents, plan, idx, results, report, calls, performs, heals>>
    /\ UNCHANGED planner_vars
    /\ UNCHANGED healing_vars
    /\ UNCHANGED app_vars
    /\ UNCHANGED helper_vars

\* the original attempt's _perform_task finishes
TaskDone(r) ==
    /\ pc[r] = "working"
    /\ \E outcome \in TaskOutcomes :
          LET agent == calls[r][Len(calls[r])].agent
              st == execute_task_end(status, agent, outcome)
          IN  IF outcome.kind = "raise"
              THEN Raise(r, st)
              ELSE \E loc \in {AfterOriginal(plan[r], agents, idx[r], results[r], calls[r], outcome.result)} : Resume(r, loc, st)

\* _execute_recovery_plan finishes
HealingDone(r) ==
    /\ pc[r] = "healing"
    /\ LET result == results[r][Len(results[r])]
           healing_result == _execute_recovery_plan(_analyze_failure(result))
       IN  \E loc \in {AfterHealing(plan[r], agents, idx[r], results[r], calls[r], healing_result)} : Resume(r, loc, status)

\* the retry's _perform_task finishes
RetryDone(r) ==
    /\ pc[r] = "retrying"
    /\ \E outcome \in TaskOutcomes :
          LET agent == calls[r][Len(calls[r])].agent
              st == execute_task_end(status, agent, outcome)
          IN  IF outcome.kind = "raise"
              THEN Raise(r, st)
              ELSE \E loc \in {AfterRetry(plan[r], agents, idx[r], results[r], calls[r], outcome.result)} : Resume(r, loc, st)

---------------------------------------------------------------------------
(* strategic_intelligence.py: the strategy planner *)

\* class UnlockStrategy(Enum), in definition order
UnlockStrategy ==
    <<"DIRECT_BYPASS", "VULNERABILITY_EXPLOIT", "RECOVERY_MODE",
      "BOOTLOADER_ACCESS", "CUSTOM_TOOL", "COMBINATION">>

Strategies ==
    {UnlockStrategy[k] : k \in DOMAIN UnlockStrategy}

m_samsung ==
    <<"s", "a", "m", "s", "u", "n", "g">>
m_Samsung ==
    <<"S", "a", "m", "s", "u", "n", "g">>
m_google ==
    <<"g", "o", "o", "g", "l", "e">>
m_apple ==
    <<"a", "p", "p", "l", "e">>

Manufacturers ==
    {m_samsung, m_Samsung, m_google, m_apple}

\* lock identifiers of a device analysis (a duplicate-free list, read only
\* through `in` and len)
LockNames ==
    {"bootloader_lock", "frp_lock", "icloud_lock", "screen_lock"}

\* the empty dict {}
EmptyDict ==
    [k \in {} |-> {}]

\* dict.get(key, default)
Get(d, key, default) ==
    IF key \in DOMAIN d THEN d[key] ELSE default

\* the device analyses: with or without "device_identification", with or
\* without "lock_detection"; {} is what the shipped _get_device_analysis returns
Analyses ==
    {EmptyDict}
    \cup {[device_identification |-> [manufacturer |-> m]] : m \in Manufacturers}
    \cup {[lock_detection |-> [locks |-> l]] : l \in SUBSET LockNames}
    \cup {[device_identification |-> [manufacturer |-> m], lock_detection |-> [locks |-> l]] :
             m \in Manufacturers, l \in SUBSET LockNames}

\* success probabilities in percent; 70 is the shipped stub's 0.7
ProbValues ==
    {50, 70, 90}

_get_device_analysis(device_id) ==
    analysis

\* a variant that looks the probability up in the loaded strategy database
_calculate_strategy_success_from_database(device_analysis, strategy) ==
    LET device_type == Lower(Get(Get(device_analysis, "device_identification", EmptyDict),
                                 "manufacturer", EmptyStr))
    IN  Get(Get(strategy_database, device_type, EmptyDict), strategy, 50)

_calculate_strategy_success(device_analysis, strategy) ==
    strategy_success[strategy]

_identify_security_risks(device_analysis) ==
    << >>

_generate_risk_recommendations(risks) ==
    << >>

_generate_alternative_steps(device_analysis, strategy) ==
    << >>

_assess_strategy_risk(device_analysis, strategy) ==
    "medium"

\* rule order changed: the icloud_lock rule first
_select_optimal_strategy_icloud_first(device_analysis) ==
    LET locks == Get(Get(device_analysis, "lock_detection", EmptyDict), "locks", {})
        device_type == Lower(Get(Get(device_analysis, "device_identification", EmptyDict), "manufacturer", EmptyStr))
    IN  IF "icloud_lock" \in locks
        THEN "CUSTOM_TOOL"
        ELSE IF "bootloader_lock" \in locks /\ device_type = m_samsung
        THEN "BOOTLOADER_ACCESS"
        ELSE IF "frp_lock" \in locks /\ device_type = m_google
        THEN "VULNERABILITY_EXPLOIT"
        ELSE IF Cardinality(locks) > 2
        THEN "COMBINATION"
        ELSE "DIRECT_BYPASS"

_select_optimal_strategy(device_analysis) ==
    LET locks == Get(Get(device_analysis, "lock_detection", EmptyDict), "locks", {})
        device_type == Lower(Get(Get(device_analysis, "device_identification", EmptyDict), "manufacturer", EmptyStr))
    IN  IF "bootloader_lock" \in locks /\ device_type = m_samsung
        THEN "BOOTLOADER_ACCESS"
        ELSE IF "frp_lock" \in locks /\ device_type = m_google
        THEN "VULNERABILITY_EXPLOIT"
        ELSE IF "icloud_lock" \in locks
        THEN "CUSTOM_TOOL"
        ELSE IF Cardinality(locks) > 2
        THEN "COMBINATION"
        ELSE "DIRECT_BYPASS"

\* the per-strategy step generators, shipped as `return []`
_generate_direct_bypass_steps(device_analysis) ==
    << >>

_generate_vulnerability_steps(device_analysis) ==
    << >>

_generate_bootloader_steps(device_analysis) ==
    << >>

_generate_custom_tool_steps(device_analysis) ==
    << >>

_generate_combination_steps(device_analysis) ==
    << >>

\* steps = []; then one generator per strategy, none for RECOVERY_MODE
_generate_unlock_steps(device_analysis) ==
    LET strategy == _select_optimal_strategy(device_analysis)
    IN  CASE strategy = "DIRECT_BYPASS" -> _generate_direct_bypass_steps(device_analysis)
          [] strategy = "VULNERABILITY_EXPLOIT" -> _generate_vulnerability_steps(device_analysis)
          [] strategy = "BOOTLOADER_ACCESS" -> _generate_bootloader_steps(device_analysis)
          [] strategy = "CUSTOM_TOOL" -> _generate_custom_tool_steps(device_analysis)
          [] strategy = "COMBINATION" -> _generate_combination_steps(device_analysis)
          [] OTHER -> << >>

\* sorted(items, key=lambda x: x['success_probability'], reverse=True): a
\* stable sort, equal keys keep their order
InsertDesc(sorted, x) ==
    LET smaller == {k \in 1..Len(sorted) : sorted[k].success_probability < x.success_probability}
        at == IF smaller = {} THEN Len(sorted) + 1
              ELSE CHOOSE k \in smaller : \A k2 \in smaller : k <= k2
    IN  SubSeq(sorted, 1, at - 1) \o <<x>> \o SubSeq(sorted, at, Len(sorted))

RECURSIVE SortedDesc(_)
SortedDesc(items) ==
    IF items = << >> THEN << >>
    ELSE InsertDesc(SortedDesc(SubSeq(items, 1, Len(items) - 1)), items[Len(items)])

\* the list without its first occurrence of x (list.remove)
Remove(list, x) ==
    LET at == CHOOSE k \in 1..Len(list) : list[k] = x /\ \A k2 \in 1..(k - 1) : list[k2] # x
    IN  SubSeq(list, 1, at - 1) \o SubSeq(list, at + 1, Len(list))

\* list[:n]
Take(list, n) ==
    SubSeq(list, 1, IF Len(list) < n THEN Len(list) ELSE n)

\* the primary strategy left in the list
alternative_strategies_unfiltered(primary_strategy) ==
    UnlockStrategy

\* [s for s in UnlockStrategy if s != primary_strategy]
alternative_strategies(primary_strategy) ==
    SelectSeq(UnlockStrategy, LAMBDA s : s # primary_strategy)

_prepare_fallback_strategies(device_analysis) ==
    LET primary_strategy == _select_optimal_strategy(device_analysis)
        chosen == Take(alternative_strategies(primary_strategy), 2)
        fallbacks == [k \in 1..Len(chosen) |->
                        [strategy |-> chosen[k],
                         activation_condition |-> "primary_strategy_failure",
                         steps |-> _generate_alternative_steps(device_analysis, chosen[k]),
                         success_probability |-> _calculate_strategy_success(device_analysis, chosen[k])]]
    IN  SortedDesc(fallbacks)

get_alternatives(device_id) ==
    LET device_analysis == _get_device_analysis(device_id)
        primary_strategy == _select_optimal_strategy(device_analysis)
        all_strategies == Remove(UnlockStrategy, primary_strategy)
        alts == [k \in 1..Len(all_strategies) |->
                    [strategy |-> all_strategies[k],
                     steps |-> _generate_alternative_steps(device_analysis, all_strategies[k]),
                     success_probability |-> _calculate_strategy_success(device_analysis, all_strategies[k]),
                     risk_level |-> _assess_strategy_risk(device_analysis, all_strategies[k])]]
    IN  SortedDesc(alts)

\* a variant whose brick probability is set for Samsung devices only
_assess_risks_samsung_only(device_analysis) ==
    LET device_type == Get(Get(device_analysis, "device_identification", EmptyDict),
                           "manufacturer", EmptyStr)
        locks == Get(Get(device_analysis, "lock_detection", EmptyDict), "locks", {})
        risks == [data_loss_probability |->
                      IF "frp_lock" \in locks /\ device_type = m_samsung THEN 10 ELSE 0,
                  brick_probability |->
                      IF "bootloader_lock" \in locks /\ device_type = m_samsung THEN 30 ELSE 0,
                  warranty_void |-> TRUE]
    IN  [data_loss_probability |-> risks.data_loss_probability,
         brick_probability |-> risks.brick_probability,
         warranty_void |-> risks.warranty_void,
         security_risks |-> _identify_security_risks(device_analysis),
         recommendations |-> _generate_risk_recommendations(risks)]

\* a risk assessment that lower-cases the manufacturer as the selection does
_assess_risks_lower(device_analysis) ==
    LET device_type == Lower(Get(Get(device_analysis, "device_identification", EmptyDict),
                                 "manufacturer", EmptyStr))
        locks == Get(Get(device_analysis, "lock_detection", EmptyDict), "locks", {})
        risks == [data_loss_probability |->
                      IF "frp_lock" \in locks /\ device_type = m_samsung THEN 10 ELSE 0,
                  brick_probability |->
                      IF "bootloader_lock" \in locks THEN 30 ELSE 0,
                  warranty_void |-> TRUE]
    IN  [data_loss_probability |-> risks.data_loss_probability,
         brick_probability |-> risks.brick_probability,
         warranty_void |-> risks.warranty_void,
         security_risks |-> _identify_security_risks(device_analysis),
         recommendations |-> _generate_risk_recommendations(risks)]

\* probabilities in percent; the manufacturer is compared as given, without
\* lower()
_assess_risks(device_analysis) ==
    LET device_type == Get(Get(device_analysis, "device_identification", EmptyDict),
                           "manufacturer", EmptyStr)
        locks == Get(Get(device_analysis, "lock_detection", EmptyDict), "locks", {})
        risks == [data_loss_probability |->
                      IF "frp_lock" \in locks /\ device_type = m_samsung THEN 10 ELSE 0,
                  brick_probability |->
                      IF "bootloader_lock" \in locks THEN 30 ELSE 0,
                  warranty_void |-> TRUE]
    IN  [data_loss_probability |-> risks.data_loss_probability,
         brick_probability |-> risks.brick_probability,
         warranty_void |-> risks.warranty_void,
         security_risks |-> _identify_security_risks(device_analysis),
         recommendations |-> _generate_risk_recommendations(risks)]

create_unlock_plan(device_id) ==
    LET device_analysis == _get_device_analysis(device_id)
    IN  [device_id |-> device_id,
         strategy |-> _select_optimal_strategy(device_analysis),
         steps |-> _generate_unlock_steps(device_analysis),
         fallback_strategies |-> _prepare_fallback_strategies(device_analysis),
         risk_assessment |-> _assess_risks(device_analysis)]

\* what _load_strategy_database stores: per manufacturer, the success
\* probability (percent) of some strategies
_load_strategy_database ==
    (m_samsung :> ("DIRECT_BYPASS" :> 80 @@ "BOOTLOADER_ACCESS" :> 90))
    @@ (m_apple :> ("CUSTOM_TOOL" :> 70 @@ "VULNERABILITY_EXPLOIT" :> 60))
    @@ (m_google :> ("VULNERABILITY_EXPLOIT" :> 85 @@ "DIRECT_BYPASS" :> 75))

\* no plan, no list returned yet
NoPlan ==
    [device_id |-> "none"]

NoAlternatives ==
    <<"none">>

DeviceId ==
    "device"

\* strategic_intelligence.create_unlock_plan(device_id) is called and returns
\* (any number of times)
CreateUnlockPlan ==
    /\ unlock_plan' = create_unlock_plan(DeviceId)
    /\ UNCHANGED <<analysis, strategy_success, alternatives, strategy_database>>
    /\ UNCHANGED orch_vars
    /\ UNCHANGED healing_vars
    /\ UNCHANGED app_vars
    /\ UNCHANGED helper_vars

\* strategic_intelligence.get_alternatives(device_id) is called and returns
\* (any number of times)
GetAlternatives ==
    /\ alternatives' = get_alternatives(DeviceId)
    /\ UNCHANGED <<analysis, strategy_success, unlock_plan, strategy_database>>
    /\ UNCHANGED orch_vars
    /\ UNCHANGED healing_vars
    /\ UNCHANGED app_vars
    /\ UNCHANGED helper_vars

\* strategic_intelligence.initialize() is called and returns
initialize ==
    /\ strategy_database' = _load_strategy_database
    /\ UNCHANGED <<analysis, strategy_success, unlock_plan, alternatives>>
    /\ UNCHANGED orch_vars
    /\ UNCHANGED healing_vars
    /\ UNCHANGED app_vars
    /\ UNCHANGED helper_vars

---------------------------------------------------------------------------
(* self-healing.py: the self-healing system *)

\* words error messages are made of: six that a branch of _analyze_error
\* looks for, in various cases, and one it does not
wd_Usb ==
    <<"U", "s", "b">>
wd_driver ==
    <<"d", "r", "i", "v", "e", "r">>
wd_Permission ==
    <<"P", "e", "r", "m", "i", "s", "s", "i", "o", "n">>
wd_TIMEOUT ==
    <<"T", "I", "M", "E", "O", "U", "T">>
wd_connection ==
    <<"c", "o", "n", "n", "e", "c", "t", "i", "o", "n">>
wd_Security ==
    <<"S", "e", "c", "u", "r", "i", "t", "y">>
wd_unlocked ==
    <<"u", "n", "l", "o", "c", "k", "e", "d">>
wd_failure ==
    <<"f", "a", "i", "l", "u", "r", "e">>

Words ==
    {wd_Usb, wd_driver, wd_Permission, wd_TIMEOUT, wd_connection, wd_Security, wd_unlocked, wd_failure}

\* str(error): at most n words, separated by blanks
RECURSIVE Messages(_)
Messages(n) ==
    IF n = 0 THEN {EmptyStr}
    ELSE LET shorter == Messages(n - 1)
         IN  shorter \cup Words \cup {m \o <<" ">> \o w : m \in shorter \ {EmptyStr}, w \in Words}

\* type(error).__name__
ty_USBError ==
    <<"U", "S", "B", "E", "r", "r", "o", "r">>
ty_UsbError ==
    <<"U", "s", "b", "E", "r", "r", "o", "r">>
ty_RuntimeError ==
    <<"R", "u", "n", "t", "i", "m", "e", "E", "r", "r", "o", "r">>
ty_TimeoutError ==
    <<"T", "i", "m", "e", "o", "u", "t", "E", "r", "r", "o", "r">>

ErrorTypes ==
    {ty_USBError, ty_UsbError, ty_RuntimeError, ty_TimeoutError}

\* the contexts app.py passes to handle_error
Contexts ==
    {"device_detection", "unlock_process"}

\* the (error, context) pairs _analyze_error is examined with
ClassifierErrors ==
    {[error_type |-> t, context |-> c, message |-> m] :
         t \in ErrorTypes, c \in Contexts, m \in Messages(MaxWords)}

\* the (error, context) pairs handle_error is called with: one per branch of
\* _analyze_error
HandledErrors ==
    {[error_type |-> ty_USBError, context |-> "device_detection", message |-> wd_failure],
     [error_type |-> ty_RuntimeError, context |-> "unlock_process", message |-> wd_Permission],
     [error_type |-> ty_TimeoutError, context |-> "unlock_process", message |-> wd_TIMEOUT],
     [error_type |-> ty_RuntimeError, context |-> "unlock_process", message |-> wd_unlocked],
     [error_type |-> ty_RuntimeError, context |-> "device_detection", message |-> wd_failure]}

\* the classifier variant that tests the timeout branch before the driver
\* branch
_analyze_error_timeout_first(error_type, context, message) ==
    LET default_analysis == [can_recover |-> FALSE, method |-> "", confidence |-> 0,
                             estimated_time |-> "Unknown", manual_suggestions |-> << >>]
        lowered == Lower(message)
    IN  IF StrIn(kw_USB, error_type) \/ StrIn(kw_usb, lowered)
        THEN [can_recover |-> TRUE, method |-> "usb_connection_reset", confidence |-> 85,
              estimated_time |-> "30 seconds"] @@ default_analysis
        ELSE IF StrIn(kw_timeout, lowered) \/ StrIn(kw_connection, lowered)
        THEN [can_recover |-> TRUE, method |-> "communication_retry", confidence |-> 90,
              estimated_time |-> "1 minute"] @@ default_analysis
        ELSE IF StrIn(kw_driver, lowered) \/ StrIn(kw_permission, lowered)
        THEN [can_recover |-> TRUE, method |-> "driver_reinstallation", confidence |-> 75,
              estimated_time |-> "2 minutes"] @@ default_analysis
        ELSE IF StrIn(kw_security, lowered) \/ StrIn(kw_lock, lowered)
        THEN [can_recover |-> TRUE, method |-> "alternative_unlock_method", confidence |-> 65,
              estimated_time |-> "5 minutes"] @@ default_analysis
        ELSE [can_recover |-> TRUE, method |-> "generic_retry", confidence |-> 50,
              estimated_time |-> "1 minute",
              manual_suggestions |-> <<"Check device connection", "Restart the application",
                                       "Verify device compatibility">>] @@ default_analysis

\* the classifier variant whose last branch leaves the defaults in place
_analyze_error_no_generic(error_type, context, message) ==
    LET default_analysis == [can_recover |-> FALSE, method |-> "", confidence |-> 0,
                             estimated_time |-> "Unknown", manual_suggestions |-> << >>]
        lowered == Lower(message)
    IN  IF StrIn(kw_USB, error_type) \/ StrIn(kw_usb, lowered)
        THEN [can_recover |-> TRUE, method |-> "usb_connection_reset", confidence |-> 85,
              estimated_time |-> "30 seconds"] @@ default_analysis
        ELSE IF StrIn(kw_driver, lowered) \/ StrIn(kw_permission, lowered)
        THEN [can_recover |-> TRUE, method |-> "driver_reinstallation", confidence |-> 75,
              estimated_time |-> "2 minutes"] @@ default_analysis
        ELSE IF StrIn(kw_timeout, lowered) \/ StrIn(kw_connection, lowered)
        THEN [can_recover |-> TRUE, method |-> "communication_retry", confidence |-> 90,
              estimated_time |-> "1 minute"] @@ default_analysis
        ELSE IF StrIn(kw_security, lowered) \/ StrIn(kw_lock, lowered)
        THEN [can_recover |-> TRUE, method |-> "alternative_unlock_method", confidence |-> 65,
              estimated_time |-> "5 minutes"] @@ default_analysis
        ELSE default_analysis

\* confidences in percent; analysis.update(...) overrides the keys it names
_analyze_error(error_type, context, message) ==
    LET default_analysis == [can_recover |-> FALSE, method |-> "", confidence |-> 0,
                             estimated_time |-> "Unknown", manual_suggestions |-> << >>]
        lowered == Lower(message)
    IN  IF StrIn(kw_USB, error_type) \/ StrIn(kw_usb, lowered)
        THEN [can_recover |-> TRUE, method |-> "usb_connection_reset", confidence |-> 85,
              estimated_time |-> "30 seconds"] @@ default_analysis
        ELSE IF StrIn(kw_driver, lowered) \/ StrIn(kw_permission, lowered)
        THEN [can_recover |-> TRUE, method |-> "driver_reinstallation", confidence |-> 75,
              estimated_time |-> "2 minutes"] @@ default_analysis
        ELSE IF StrIn(kw_timeout, lowered) \/ StrIn(kw_connection, lowered)
        THEN [can_recover |-> TRUE, method |-> "communication_retry", confidence |-> 90,
              estimated_time |-> "1 minute"] @@ default_analysis
        ELSE IF StrIn(kw_security, lowered) \/ StrIn(kw_lock, lowered)
        THEN [can_recover |-> TRUE, method |-> "alternative_unlock_method", confidence |-> 65,
              estimated_time |-> "5 minutes"] @@ default_analysis
        ELSE [can_recover |-> TRUE, method |-> "generic_retry", confidence |-> 50,
              estimated_time |-> "1 minute",
              manual_suggestions |-> <<"Check device connection", "Restart the application",
                                       "Verify device compatibility">>] @@ default_analysis

\* the five recovery methods: each returns this dict after its sleep
_reset_usb_connection ==
    [success |-> TRUE, recovered |-> TRUE, action |-> "USB connection reset"]

_reinstall_drivers ==
    [success |-> TRUE, recovered |-> TRUE, action |-> "Driver reinstallation"]

_retry_communication ==
    [success |-> TRUE, recovered |-> TRUE, action |-> "Communication retry"]

_try_alternative_method ==
    [success |-> TRUE, recovered |-> TRUE, action |-> "Alternative method execution"]

_generic_retry ==
    [success |-> TRUE, recovered |-> TRUE, action |-> "Generic retry"]

\* what the awaited recovery method may do: return its dict or raise (the
\* `except Exception` of _execute_recovery is there for the latter)
RecoveryOutcomes ==
    {"return", "raise"}

\* _execute_recovery from the point where the awaited method finishes
_execute_recovery(recovery_plan, outcome) ==
    LET method == recovery_plan.method
        result == CASE method = "usb_connection_reset" -> _reset_usb_connection
                    [] method = "driver_reinstallation" -> _reinstall_drivers
                    [] method = "communication_retry" -> _retry_communication
                    [] method = "alternative_unlock_method" -> _try_alternative_method
                    [] OTHER -> _generic_retry
    IN  IF outcome = "return"
        THEN [recovery_method |-> method, confidence |-> recovery_plan.confidence] @@ result
        ELSE [success |-> FALSE, recovered |-> FALSE, error |-> "recovery method raised"]

\* the dict of handle_error's own `except Exception`
SelfHealingSystemError ==
    [success |-> FALSE, recovered |-> FALSE, reason |-> "Self-healing system error"]

\* the dict of handle_error's branch for can_recover == False
NoRecoveryAvailable(recovery_plan) ==
    [success |-> FALSE, recovered |-> FALSE, reason |-> "No automatic recovery method available",
     suggestions |-> Get(recovery_plan, "manual_suggestions", << >>)]

\* a variant of handle_error that marks the incident resolved once a recovery
\* was run, whatever it returned
AfterRecoveryResolves(recovery_plan, outcome) ==
    LET result == _execute_recovery(recovery_plan, outcome)
    IN  [recovery_result |-> result,
         incident |-> [resolved |-> TRUE, recovery_method |-> recovery_plan.method]]

\* handle_error after `await self._execute_recovery(recovery_plan)`: the two
\* keys it assigns in the incident, and the dict it returns
AfterRecovery(recovery_plan, outcome) ==
    LET result == _execute_recovery(recovery_plan, outcome)
    IN  [recovery_result |-> result,
         incident |-> [resolved |-> result.success, recovery_method |-> recovery_plan.method]]

\* nothing given, chosen or returned yet
NoStatusReport ==
    [status |-> "none"]

NoResponse ==
    [success |-> "none"]

NoError ==
    [error_type |-> EmptyStr]

NoRecoveryPlan ==
    [method |-> "none"]

NoResult ==
    [reason |-> "none"]

\* a history that puts the newest incident first
RecordIncidentFirst(history, new_incident) ==
    <<new_incident>> \o history

\* self.incident_history.append(incident)
RecordIncident(history, new_incident) ==
    Append(history, new_incident)

\* handle_error(e, context) from its call to its first suspension, inside the
\* recovery method; with `raises`, _analyze_error raises and the call returns
\* from its except branch.  The timestamp is left out.
handle_error(h, e, raises) ==
    LET recovery_plan == _analyze_error(e.error_type, e.context, e.message)
        suspended == ~raises /\ recovery_plan.can_recover
    IN  /\ he_error' = [he_error EXCEPT ![h] = e]
        /\ incident_history' = RecordIncident(incident_history,
               [error_type |-> e.error_type, context |-> e.context,
                message |-> e.message, resolved |-> FALSE])
        /\ he_incident' = [he_incident EXCEPT ![h] = Len(incident_history) + 1]
        /\ fault' = [fault EXCEPT ![h] = IF raises THEN "classification" ELSE @]
        /\ he_recovery_plan' = [he_recovery_plan EXCEPT ![h] = IF raises THEN @ ELSE recovery_plan]
        /\ handler_pc' = [handler_pc EXCEPT ![h] = IF suspended THEN "recovering" ELSE "returned"]
        /\ recoveries' = [recoveries EXCEPT ![h] = IF suspended THEN @ + 1 ELSE @]
        /\ he_recovery_result' = [he_recovery_result EXCEPT ![h] =
               IF raises THEN SelfHealingSystemError
               ELSE IF suspended THEN @ ELSE NoRecoveryAvailable(recovery_plan)]
        /\ UNCHANGED status_report
        /\ UNCHANGED orch_vars
        /\ UNCHANGED planner_vars
        /\ UNCHANGED app_vars
        /\ UNCHANGED helper_vars

\* handle_error is called with one of the errors of HandledErrors
HandleError(h) ==
    /\ handler_pc[h] = "start"
    /\ \E e \in HandledErrors, raises \in BOOLEAN : handle_error(h, e, raises)

\* handle_error is called with the error held ready for the call
HandleGivenError(h) ==
    /\ handler_pc[h] = "given"
    /\ \E raises \in BOOLEAN : handle_error(h, he_error[h], raises)

\* a get_status that divides by len(incident_history) itself
get_status_no_max ==
    LET recent_incidents == {k \in 1..Len(incident_history) :
                                Get(incident_history[k], "resolved", FALSE)}
        n == Len(incident_history)
    IN  [status |-> "operational",
         incidents_handled |-> n,
         success_rate |-> <<Cardinality(recent_incidents), n>>,
         recent_activity |-> SubSeq(incident_history, IF n > 5 THEN n - 4 ELSE 1, n)]

\* get_status() is called and returns; success_rate is kept as the pair
\* <<resolved incidents, max(len(incident_history), 1)>>, and
\* recovery_methods_loaded is left out
get_status ==
    LET recent_incidents == {k \in 1..Len(incident_history) :
                                Get(incident_history[k], "resolved", FALSE)}
        n == Len(incident_history)
    IN  [status |-> "operational",
         incidents_handled |-> n,
         success_rate |-> <<Cardinality(recent_incidents), IF n > 1 THEN n ELSE 1>>,
         recent_activity |-> SubSeq(incident_history, IF n > 5 THEN n - 4 ELSE 1, n)]

GetStatus ==
    /\ status_report' = get_status
    /\ UNCHANGED <<incident_history, handler_pc, he_error, he_incident, he_recovery_plan,
                   he_recovery_result, recoveries, fault>>
    /\ UNCHANGED orch_vars
    /\ UNCHANGED planner_vars
    /\ UNCHANGED app_vars
    /\ UNCHANGED helper_vars

\* the awaited recovery method finishes and handle_error returns
RecoveryDone(h) ==
    /\ handler_pc[h] = "recovering"
    /\ \E outcome \in RecoveryOutcomes :
          LET after == AfterRecovery(he_recovery_plan[h], outcome)
          IN  /\ incident_history' = [incident_history EXCEPT ![he_incident[h]] = after.incident @@ @]
              /\ he_recovery_result' = [he_recovery_result EXCEPT ![h] = after.recovery_result]
              /\ fault' = [fault EXCEPT ![h] = IF outcome = "raise" THEN "recovery" ELSE @]
    /\ handler_pc' = [handler_pc EXCEPT ![h] = "returned"]
    /\ UNCHANGED <<he_error, he_incident, he_recovery_plan, recoveries, status_report>>
    /\ UNCHANGED orch_vars
    /\ UNCHANGED planner_vars
    /\ UNCHANGED app_vars
    /\ UNCHANGED helper_vars

\* _analyze_error(error_type, context, message) is called on its own
AnalyzeError(h) ==
    /\ handler_pc[h] = "start"
    /\ he_recovery_plan' = [he_recovery_plan EXCEPT ![h] =
           _analyze_error(he_error[h].error_type, he_error[h].context, he_error[h].message)]
    /\ handler_pc' = [handler_pc EXCEPT ![h] = "analyzed"]
    /\ UNCHANGED <<incident_history, he_error, he_incident, he_recovery_result, recoveries, fault, status_report>>
    /\ UNCHANGED orch_vars
    /\ UNCHANGED planner_vars
    /\ UNCHANGED app_vars
    /\ UNCHANGED helper_vars

\* an AIHelpers object after construction, nothing logged
InitHelpersIdle ==
    /\ process_logs = << >>
    /\ live_progress = EmptyDict
    /\ logged_events = << >>

\* a SelfHealingSystem after construction, no handle_error call
InitHealingIdle ==
    /\ incident_history = << >>
    /\ handler_pc = [h \in Handlers |-> "idle"]
    /\ he_error = [h \in Handlers |-> NoError]
    /\ he_incident = [h \in Handlers |-> 0]
    /\ he_recovery_plan = [h \in Handlers |-> NoRecoveryPlan]
    /\ he_recovery_result = [h \in Handlers |-> NoResult]
    /\ recoveries = [h \in Handlers |-> 0]
    /\ fault = [h \in Handlers |-> "none"]
    /\ status_report = NoStatusReport

\* no plan run and no planner call
InitOthersIdle ==
    /\ agents = AgentKeys
    /\ status = [a \in AgentKeys |-> "idle"]
    /\ plan = [r \in Runs |-> << >>]
    /\ pc = [r \in Runs |-> "idle"]
    /\ idx = [r \in Runs |-> 0]
    /\ results = [r \in Runs |-> << >>]
    /\ report = [r \in Runs |-> NoReport]
    /\ calls = [r \in Runs |-> << >>]
    /\ performs = [r \in Runs |-> 0]
    /\ heals = [r \in Runs |-> 0]
    /\ analysis = EmptyDict
    /\ strategy_success = [s \in Strategies |-> 70]
    /\ unlock_plan = NoPlan
    /\ alternatives = NoAlternatives
    /\ strategy_database = EmptyDict
    /\ response = [r \in Runs |-> NoResponse]
    /\ InitHelpersIdle

\* the classifier alone: one error, _analyze_error applied to it
InitClassifier ==
    /\ InitOthersIdle
    /\ incident_history = << >>
    /\ handler_pc = [h \in Handlers |-> IF h = 1 THEN "start" ELSE "idle"]
    /\ \E e \in ClassifierErrors : he_error = [h \in Handlers |-> IF h = 1 THEN e ELSE NoError]
    /\ he_incident = [h \in Handlers |-> 0]
    /\ he_recovery_plan = [h \in Handlers |-> NoRecoveryPlan]
    /\ he_recovery_result = [h \in Handlers |-> NoResult]
    /\ recoveries = [h \in Handlers |-> 0]
    /\ fault = [h \in Handlers |-> "none"]
    /\ status_report = NoStatusReport

NextClassifier ==
    \E h \in Handlers : AnalyzeError(h)

SpecClassifier ==
    InitClassifier /\ [][NextClassifier]_vars

\* handle_error calls on one SelfHealingSystem, interleaving where a call is
\* suspended in its recovery method
InitHealing ==
    /\ InitOthersIdle
    /\ incident_history = << >>
    /\ handler_pc = [h \in Handlers |-> "start"]
    /\ he_error = [h \in Handlers |-> NoError]
    /\ he_incident = [h \in Handlers |-> 0]
    /\ he_recovery_plan = [h \in Handlers |-> NoRecoveryPlan]
    /\ he_recovery_result = [h \in Handlers |-> NoResult]
    /\ recoveries = [h \in Handlers |-> 0]
    /\ fault = [h \in Handlers |-> "none"]
    /\ status_report = NoStatusReport

NextHealing ==
    \/ \E h \in Handlers :
          \/ HandleError(h)
          \/ RecoveryDone(h)
    \/ GetStatus

SpecHealing ==
    InitHealing /\ [][NextHealing]_vars

\* one handle_error call with any error of the classifier's input set
InitAnyError ==
    /\ InitOthersIdle
    /\ incident_history = << >>
    /\ handler_pc = [h \in Handlers |-> IF h = 1 THEN "given" ELSE "idle"]
    /\ \E e \in ClassifierErrors : he_error = [h \in Handlers |-> IF h = 1 THEN e ELSE NoError]
    /\ he_incident = [h \in Handlers |-> 0]
    /\ he_recovery_plan = [h \in Handlers |-> NoRecoveryPlan]
    /\ he_recovery_result = [h \in Handlers |-> NoResult]
    /\ recoveries = [h \in Handlers |-> 0]
    /\ fault = [h \in Handlers |-> "none"]
    /\ status_report = NoStatusReport

NextAnyError ==
    \E h \in Handlers :
        \/ HandleGivenError(h)
        \/ RecoveryDone(h)

SpecAnyError ==
    InitAnyError /\ [][NextAnyError]_vars

\* all plans of at most n steps
RECURSIVE PlansUpTo(_)
PlansUpTo(n) ==
    IF n = 0 THEN {<< >>}
    ELSE LET shorter == PlansUpTo(n - 1)
         IN  shorter \cup {Append(p, t) : p \in {q \in shorter : Len(q) = n - 1}, t \in StepTypes}

\* one execute_unlock_plan call on a DeepAgents object whose agents have
\* not run yet
Init ==
    /\ agents \in Pools
    /\ status = [a \in AgentKeys |-> "idle"]
    /\ \E steps \in PlansUpTo(MaxSteps) :
          plan = [r \in Runs |-> IF r = 1 THEN steps ELSE << >>]
    /\ pc = [r \in Runs |-> IF r = 1 THEN "start" ELSE "idle"]
    /\ idx = [r \in Runs |-> 0]
    /\ results = [r \in Runs |-> << >>]
    /\ report = [r \in Runs |-> NoReport]
    /\ calls = [r \in Runs |-> << >>]
    /\ performs = [r \in Runs |-> 0]
    /\ heals = [r \in Runs |-> 0]
    /\ analysis = EmptyDict
    /\ strategy_success = [s \in Strategies |-> 70]
    /\ unlock_plan = NoPlan
    /\ alternatives = NoAlternatives
    /\ strategy_database = EmptyDict
    /\ InitHealingIdle
    /\ response = [r \in Runs |-> NoResponse]
    /\ InitHelpersIdle

Next ==
    \E r \in Runs :
        \/ Start(r)
        \/ TaskDone(r)
        \/ HealingDone(r)
        \/ RetryDone(r)

Spec ==
    Init /\ [][Next]_vars

\* the same call when every awaited worker run and every awaited recovery
\* returns (or raises) and the event loop resumes the coroutine
Fairness ==
    \A r \in Runs :
        /\ WF_vars(Start(r))
        /\ WF_vars(TaskDone(r))
        /\ WF_vars(HealingDone(r))
        /\ WF_vars(RetryDone(r))

\* one step type for each way a step can go: routed to a worker
\* (usb_communication, vulnerability_exploit), a routing miss that failure
\* analysis can recover (USB_unlock) and one it cannot (firmware_flash)
RoutedStepTypes ==
    {usb_communication, vulnerability_exploit, USB_unlock, firmware_flash}

\* one execute_unlock_plan call on the DeepAgents object of the service
\* (all three agents registered by initialize())
InitTerminates ==
    /\ agents = AgentKeys
    /\ status = [a \in AgentKeys |-> "idle"]
    /\ \E steps \in {p \in PlansUpTo(MaxSteps) : \A j \in 1..Len(p) : p[j] \in RoutedStepTypes} :
          plan = [r \in Runs |-> IF r = 1 THEN steps ELSE << >>]
    /\ pc = [r \in Runs |-> IF r = 1 THEN "start" ELSE "idle"]
    /\ idx = [r \in Runs |-> 0]
    /\ results = [r \in Runs |-> << >>]
    /\ report = [r \in Runs |-> NoReport]
    /\ calls = [r \in Runs |-> << >>]
    /\ performs = [r \in Runs |-> 0]
    /\ heals = [r \in Runs |-> 0]
    /\ analysis = EmptyDict
    /\ strategy_success = [s \in Strategies |-> 70]
    /\ unlock_plan = NoPlan
    /\ alternatives = NoAlternatives
    /\ strategy_database = EmptyDict
    /\ InitHealingIdle
    /\ response = [r \in Runs |-> NoResponse]
    /\ InitHelpersIdle

SpecTerminates ==
    InitTerminates /\ [][Next]_vars /\ Fairness

\* the planner alone: one device analysis, one table of success
\* probabilities, no plan run
InitPlanner ==
    /\ agents = {}
    /\ status = [a \in AgentKeys |-> "idle"]
    /\ plan = [r \in Runs |-> << >>]
    /\ pc = [r \in Runs |-> "idle"]
    /\ idx = [r \in Runs |-> 0]
    /\ results = [r \in Runs |-> << >>]
    /\ report = [r \in Runs |-> NoReport]
    /\ calls = [r \in Runs |-> << >>]
    /\ performs = [r \in Runs |-> 0]
    /\ heals = [r \in Runs |-> 0]
    /\ analysis \in Analyses
    /\ strategy_success \in [Strategies -> ProbValues]
    /\ unlock_plan = NoPlan
    /\ alternatives = NoAlternatives
    /\ strategy_database = EmptyDict
    /\ InitHealingIdle
    /\ response = [r \in Runs |-> NoResponse]
    /\ InitHelpersIdle

NextPlanner ==
    \/ CreateUnlockPlan
    \/ GetAlternatives
    \/ initialize

SpecPlanner ==
    InitPlanner /\ [][NextPlanner]_vars

\* success-probability tables for the service: the three constant ones (70 is
\* the shipped stub) and one that rises along the enumeration
ServiceTables ==
    {[s \in Strategies |-> p] : p \in ProbValues}
    \cup {[s \in Strategies |->
              IF s \in {"DIRECT_BYPASS", "VULNERABILITY_EXPLOIT"} THEN 50
              ELSE IF s \in {"RECOVERY_MODE", "BOOTLOADER_ACCESS"} THEN 70 ELSE 90]}

\* the service as app.py assembles it: one planner and one DeepAgents object
\* with its three agents, a plan of at most one step being executed while the
\* planner is called
InitService ==
    /\ agents = AgentKeys
    /\ status = [a \in AgentKeys |-> "idle"]
    /\ \E steps \in {p \in PlansUpTo(MaxSteps) : Len(p) <= 1} :
          plan = [r \in Runs |-> IF r = 1 THEN steps ELSE << >>]
    /\ pc = [r \in Runs |-> IF r = 1 THEN "start" ELSE "idle"]
    /\ idx = [r \in Runs |-> 0]
    /\ results = [r \in Runs |-> << >>]
    /\ report = [r \in Runs |-> NoReport]
    /\ calls = [r \in Runs |-> << >>]
    /\ performs = [r \in Runs |-> 0]
    /\ heals = [r \in Runs |-> 0]
    /\ analysis \in Analyses
    /\ strategy_success \in ServiceTables
    /\ unlock_plan = NoPlan
    /\ alternatives = NoAlternatives
    /\ strategy_database = EmptyDict
    /\ InitHealingIdle
    /\ response = [r \in Runs |-> NoResponse]
    /\ InitHelpersIdle

NextService ==
    \/ Next
    \/ NextPlanner

SpecService ==
    InitService /\ [][NextService]_vars

\* several execute_unlock_plan calls on the one DeepAgents object of the
\* service, each with a plan of at most one step; they interleave wherever a
\* coroutine is suspended
InitConcurrent ==
    /\ agents = AgentKeys
    /\ status = [a \in AgentKeys |-> "idle"]
    /\ plan \in [Runs -> {p \in PlansUpTo(MaxSteps) : Len(p) <= 1}]
    /\ pc = [r \in Runs |-> "start"]
    /\ idx = [r \in Runs |-> 0]
    /\ results = [r \in Runs |-> << >>]
    /\ report = [r \in Runs |-> NoReport]
    /\ calls = [r \in Runs |-> << >>]
    /\ performs = [r \in Runs |-> 0]
    /\ heals = [r \in Runs |-> 0]
    /\ analysis = EmptyDict
    /\ strategy_success = [s \in Strategies |-> 70]
    /\ unlock_plan = NoPlan
    /\ alternatives = NoAlternatives
    /\ strategy_database = EmptyDict
    /\ InitHealingIdle
    /\ response = [r \in Runs |-> NoResponse]
    /\ InitHelpersIdle

SpecConcurrent ==
    InitConcurrent /\ [][Next]_vars

\* two execute_unlock_plan calls on the one DeepAgents object, each with its
\* own plan: at most two steps for the first, at most one for the second
InitTwoRuns ==
    /\ agents = AgentKeys
    /\ status = [a \in AgentKeys |-> "idle"]
    /\ \E p1 \in {p \in PlansUpTo(MaxSteps) : Len(p) <= 2},
          p2 \in {p \in PlansUpTo(MaxSteps) : Len(p) <= 1} :
          plan = [r \in Runs |-> IF r = 1 THEN p1 ELSE IF r = 2 THEN p2 ELSE << >>]
    /\ pc = [r \in Runs |-> IF r <= 2 THEN "start" ELSE "idle"]
    /\ idx = [r \in Runs |-> 0]
    /\ results = [r \in Runs |-> << >>]
    /\ report = [r \in Runs |-> NoReport]
    /\ calls = [r \in Runs |-> << >>]
    /\ performs = [r \in Runs |-> 0]
    /\ heals = [r \in Runs |-> 0]
    /\ analysis = EmptyDict
    /\ strategy_success = [s \in Strategies |-> 70]
    /\ unlock_plan = NoPlan
    /\ alternatives = NoAlternatives
    /\ strategy_database = EmptyDict
    /\ InitHealingIdle
    /\ response = [r \in Runs |-> NoResponse]
    /\ InitHelpersIdle

SpecTwoRuns ==
    InitTwoRuns /\ [][Next]_vars

\* the task running execute_unlock_plan is cancelled while the coroutine is
\* suspended: CancelledError is thrown in at the await; it is no Exception,
\* so neither execute_task's nor execute_unlock_plan's `except Exception`
\* sees it: the status stays as it is and no report is built
Cancel(r) ==
    /\ pc[r] \in {"working", "healing", "retrying"}
    /\ pc' = [pc EXCEPT ![r] = "cancelled"]
    /\ UNCHANGED <<agents, status, plan, idx, results, report, calls, performs, heals>>
    /\ UNCHANGED planner_vars
    /\ UNCHANGED healing_vars
    /\ UNCHANGED app_vars
    /\ UNCHANGED helper_vars

\* app.start_unlock after execute_unlock_plan returned: the try block's dict
\* (the logs entry is left out)
RespondSuccess(r) ==
    /\ pc[r] = "done"
    /\ response[r] = NoResponse
    /\ response' = [response EXCEPT ![r] =
           [success |-> TRUE, plan |-> [steps |-> plan[r]], result |-> report[r]]]
    /\ UNCHANGED orch_vars
    /\ UNCHANGED planner_vars
    /\ UNCHANGED healing_vars
    /\ UNCHANGED helper_vars

\* app.start_unlock's except block: handle_error(e, "unlock_process") is
\* called with the exception execute_unlock_plan raised
StartUnlockExcept(r) ==
    /\ r \in Handlers
    /\ pc[r] = "raised"
    /\ HandleError(r)
    /\ he_error'[r].context = "unlock_process"

\* app.start_unlock's except block after handle_error returned: the dict with
\* get_alternatives' list
RespondFailure(r) ==
    /\ r \in Handlers
    /\ pc[r] = "raised"
    /\ handler_pc[r] = "returned"
    /\ response[r] = NoResponse
    /\ response' = [response EXCEPT ![r] =
           [success |-> FALSE, self_healing |-> he_recovery_result[r],
            alternative_methods |-> get_alternatives(DeviceId)]]
    /\ UNCHANGED orch_vars
    /\ UNCHANGED planner_vars
    /\ UNCHANGED healing_vars
    /\ UNCHANGED helper_vars

\* one start_unlock request on the initialized service; the plan it obtained
\* has at most two steps
InitApp ==
    /\ agents = AgentKeys
    /\ status = [a \in AgentKeys |-> "idle"]
    /\ \E steps \in {p \in PlansUpTo(MaxSteps) : Len(p) <= 2} :
          plan = [r \in Runs |-> IF r = 1 THEN steps ELSE << >>]
    /\ pc = [r \in Runs |-> IF r = 1 THEN "start" ELSE "idle"]
    /\ idx = [r \in Runs |-> 0]
    /\ results = [r \in Runs |-> << >>]
    /\ report = [r \in Runs |-> NoReport]
    /\ calls = [r \in Runs |-> << >>]
    /\ performs = [r \in Runs |-> 0]
    /\ heals = [r \in Runs |-> 0]
    /\ analysis = EmptyDict
    /\ strategy_success = [s \in Strategies |-> 70]
    /\ unlock_plan = NoPlan
    /\ alternatives = NoAlternatives
    /\ strategy_database = EmptyDict
    /\ incident_history = << >>
    /\ handler_pc = [h \in Handlers |-> IF h = 1 THEN "start" ELSE "idle"]
    /\ he_error = [h \in Handlers |-> NoError]
    /\ he_incident = [h \in Handlers |-> 0]
    /\ he_recovery_plan = [h \in Handlers |-> NoRecoveryPlan]
    /\ he_recovery_result = [h \in Handlers |-> NoResult]
    /\ recoveries = [h \in Handlers |-> 0]
    /\ fault = [h \in Handlers |-> "none"]
    /\ status_report = NoStatusReport
    /\ response = [r \in Runs |-> NoResponse]
    /\ InitHelpersIdle

NextApp ==
    \/ \E r \in Runs :
          \/ Start(r)
          \/ TaskDone(r)
          \/ HealingDone(r)
          \/ RetryDone(r)
          \/ Cancel(r)
          \/ RespondSuccess(r)
          \/ StartUnlockExcept(r)
          \/ RespondFailure(r)
    \/ \E h \in Handlers : RecoveryDone(h)

SpecApp ==
    InitApp /\ [][NextApp]_vars

---------------------------------------------------------------------------
(* ai_helpers.py: AIHelpers.update_progress and _log_event *)

\* the number of entries _log_event keeps
MaxLogEntries ==
    1000

\* update_progress / _log_event calls followed from an initial state
MaxEvents ==
    5

\* the progress_data dicts update_progress is called with
ProgressData ==
    {[overall |-> 50], [overall |-> 100, current_step |-> "done"]}

\* the event types _log_event is called with, besides update_progress's
EventTypes ==
    {"error"}

\* the entry _log_event builds; the timestamp is left out
log_entry(event_type, data) ==
    [type |-> event_type, data |-> data]

\* a log that is never cut
_log_event_unbounded(logs, event_type, data) ==
    Append(logs, log_entry(event_type, data))

\* self.process_logs.append(log_entry), then
\* if len(self.process_logs) > 1000: self.process_logs = self.process_logs[-1000:]
_log_event(logs, event_type, data) ==
    LET appended == Append(logs, log_entry(event_type, data))
        n == Len(appended)
    IN  IF n > MaxLogEntries
        THEN SubSeq(appended, n - MaxLogEntries + 1, n)
        ELSE appended

\* the calls followed: MaxEvents from the empty log, and MaxEvents from a log
\* two entries short of MaxLogEntries
CanLog ==
    \/ Len(logged_events) < MaxEvents
    \/ /\ Len(logged_events) >= MaxLogEntries - 2
       /\ Len(logged_events) < MaxLogEntries - 2 + MaxEvents

\* await update_progress(progress_data)
UpdateProgress ==
    /\ CanLog
    /\ \E progress_data \in ProgressData :
          /\ live_progress' = progress_data @@ live_progress
          /\ process_logs' = _log_event(process_logs, "progress_update", progress_data)
          /\ logged_events' = Append(logged_events, log_entry("progress_update", progress_data))
    /\ UNCHANGED orch_vars
    /\ UNCHANGED planner_vars
    /\ UNCHANGED healing_vars
    /\ UNCHANGED app_vars

\* _log_event(event_type, data) called on its own
LogEvent ==
    /\ CanLog
    /\ \E event_type \in EventTypes :
          /\ process_logs' = _log_event(process_logs, event_type, EmptyDict)
          /\ logged_events' = Append(logged_events, log_entry(event_type, EmptyDict))
    /\ UNCHANGED live_progress
    /\ UNCHANGED orch_vars
    /\ UNCHANGED planner_vars
    /\ UNCHANGED healing_vars
    /\ UNCHANGED app_vars

\* the log after n update_progress calls with the same progress_data
ProgressUpdates(n) ==
    [j \in 1..n |-> log_entry("progress_update", [overall |-> 50])]

\* an AIHelpers object after construction, or after MaxLogEntries - 2
\* progress updates; nothing else of the service has run
InitHelpers ==
    /\ agents = AgentKeys
    /\ status = [a \in AgentKeys |-> "idle"]
    /\ plan = [r \in Runs |-> << >>]
    /\ pc = [r \in Runs |-> "idle"]
    /\ idx = [r \in Runs |-> 0]
    /\ results = [r \in Runs |-> << >>]
    /\ report = [r \in Runs |-> NoReport]
    /\ calls = [r \in Runs |-> << >>]
    /\ performs = [r \in Runs |-> 0]
    /\ heals = [r \in Runs |-> 0]
    /\ analysis = EmptyDict
    /\ strategy_success = [s \in Strategies |-> 70]
    /\ unlock_plan = NoPlan
    /\ alternatives = NoAlternatives
    /\ strategy_database = EmptyDict
    /\ InitHealingIdle
    /\ response = [r \in Runs |-> NoResponse]
    /\ \E n \in {0, MaxLogEntries - 2} :
          /\ process_logs = ProgressUpdates(n)
          /\ logged_events = ProgressUpdates(n)
          /\ live_progress = IF n = 0 THEN EmptyDict ELSE [overall |-> 50]

NextHelpers ==
    \/ UpdateProgress
    \/ LogEvent

SpecHelpers ==
    InitHelpers /\ [][NextHelpers]_vars

---------------------------------------------------------------------------
(* Properties of execute_unlock_plan *)

\* the positions in run r's call log at which step i was dispatched
DispatchesOf(r, i) ==
    {j \in 1..Len(calls[r]) : calls[r][j].step = i}

\* a recorded entry without its {"retry_result": ...} wrapper
Unwrap(entry) ==
    IF IsRetryEntry(entry) THEN entry.retry_result ELSE entry

\* the k-th _execute_step call that returned produced the k-th entry of
\* results; the final recorded attempt of step i is the entry of its last
\* dispatch
FinalAttempt(r, i) ==
    LET last == CHOOSE j \in DispatchesOf(r, i) : \A k \in DispatchesOf(r, i) : k <= j
    IN  Unwrap(results[r][last])

Returned(r) ==
    pc[r] = "done"

\* C1: every step is dispatched at most twice, one original attempt and at
\* most one retry, and each dispatch to a worker invokes _perform_task
\* exactly once.
C1_BoundedRetry ==
    \A r \in Runs :
        /\ \A i \in 1..Len(plan[r]) :
              /\ Cardinality(DispatchesOf(r, i)) <= 2
              /\ Cardinality({j \in DispatchesOf(r, i) : calls[r][j].retry}) <= 1
              /\ Cardinality({j \in DispatchesOf(r, i) : ~calls[r][j].retry}) <= 1
        /\ \A j \in 1..Len(calls[r]) : calls[r][j].step \in 1..Len(plan[r])
        /\ performs[r] = Cardinality({j \in 1..Len(calls[r]) : calls[r][j].agent # None})

\* a returned run in which a step was dispatched twice, both times to a worker
C1_Witness ==
    \E r \in Runs :
        /\ Returned(r)
        /\ \E i \in 1..Len(plan[r]) :
              /\ Cardinality(DispatchesOf(r, i)) = 2
              /\ \A j \in DispatchesOf(r, i) : calls[r][j].agent # None
              /\ ~Get_success(FinalAttempt(r, i))

\* C2: a report with success = true implies that the final recorded attempt of
\* every step (the retry when there is one, else the original) succeeded.
C2_SuccessImpliesFinalAttempts ==
    \A r \in Runs :
        (Returned(r) /\ report[r].success)
            => \A i \in 1..Len(plan[r]) :
                  /\ DispatchesOf(r, i) # {}
                  /\ Get_success(FinalAttempt(r, i))

\* a returned three-step run reported successful
C2_Witness ==
    \E r \in Runs :
        /\ Returned(r)
        /\ report[r].success
        /\ Len(plan[r]) = 3
        /\ Len(results[r]) = 3

\* C3 (as claimed): when every step's final attempt succeeded, the report has
\* success = true and final_status = unlocked, even if first attempts failed.
C3_FinalAttemptsDecide ==
    \A r \in Runs :
        (Returned(r) /\ \A i \in 1..Len(plan[r]) : Get_success(FinalAttempt(r, i)))
            => (report[r].success /\ report[r].final_status = "unlocked")

\* C4: a failed result that cannot be recovered does not end the run: in
\* every returned run each of the n steps was dispatched and has a recorded
\* result, and with such a failure the report is success = false,
\* partially_locked.
C4_NoAbortOnFailure ==
    \A r \in Runs :
        Returned(r) =>
            /\ \A i \in 1..Len(plan[r]) :
                  \E j \in DispatchesOf(r, i) : j <= Len(results[r])
            /\ (\E j \in 1..Len(results[r]) :
                    /\ ~IsRetryEntry(results[r][j])
                    /\ ~Get_success(results[r][j])
                    /\ ~_analyze_failure(results[r][j]).can_recover)
                => (~report[r].success /\ report[r].final_status = "partially_locked")

\* Scenario D: three steps, the second fails and cannot be recovered, the
\* first and third succeed
C4_Witness ==
    \E r \in Runs :
        /\ Returned(r)
        /\ Len(plan[r]) = 3
        /\ Len(results[r]) = 3
        /\ Get_success(results[r][1])
        /\ ~Get_success(results[r][2])
        /\ ~_analyze_failure(results[r][2]).can_recover
        /\ Get_success(results[r][3])
        /\ report[r].final_status = "partially_locked"

\* C5 (as claimed): a failure raised inside a worker's task never leaves
\* execute_unlock_plan as an exception.
C5_WorkerFailureCaptured ==
    \A r \in Runs : pc[r] # "raised"

\* the dispatch at position j of run r's call log found no worker
IsMiss(c) ==
    c.agent = None

\* C6: a dispatch that finds no worker for the step's type records a result
\* with success = false and the no-agent error text, raises nothing, changes
\* no worker's status, and the run goes on to the retry or the next step.
C6_RoutingMissReported ==
    [][\A r \in Runs :
          LET old == Len(calls[r])
              new == Len(calls'[r])
          IN  /\ \A j \in (old + 1)..new :
                    IsMiss(calls'[r][j]) =>
                        LET s == calls'[r][j].step
                            entry == Unwrap(results'[r][j])
                        IN  /\ pc'[r] # "raised"
                            /\ j <= Len(results'[r])
                            /\ entry.success = FALSE
                            /\ Get_error(entry) = NoAgentPrefix \o plan[r][s]
                            /\ \/ pc'[r] = "healing" /\ idx'[r] = s /\ j = new
                               \/ j < new /\ calls'[r][j + 1].step = s + 1
                               \/ s = Len(plan[r]) /\ pc'[r] = "done" /\ j = new
              /\ (/\ new > old
                  /\ \A j \in (old + 1)..new : IsMiss(calls'[r][j])
                  /\ pc[r] \in {"start", "healing"})
                 => status' = status
     ]_vars

\* Scenario B: only the vulnerability_exploit worker is loaded, a
\* usb_communication step was dispatched and missed, and a later step ran
C6_Witness ==
    \E r \in Runs :
        /\ agents = {"vulnerability_exploit"}
        /\ Returned(r)
        /\ Len(plan[r]) >= 2
        /\ plan[r][1] = usb_communication
        /\ IsMiss(calls[r][1])
        /\ Get_error(results[r][1]) = NoAgentPrefix \o usb_communication
        /\ \E j \in DispatchesOf(r, 2) : ~IsMiss(calls[r][j])

\* C7 (as claimed): an original attempt that failed with an error text
\* containing "timeout" is classified recoverable, recovery runs, and the step
\* is dispatched exactly once more.
C7_TimeoutIsRetried ==
    \A r \in Runs :
        \A j \in 1..Len(results[r]) :
            LET entry == results[r][j]
                s == calls[r][j].step
            IN  (/\ ~IsRetryEntry(entry)
                 /\ ~Get_success(entry)
                 /\ StrIn(kw_timeout, Lower(Get_error(entry))))
                => \/ pc[r] = "healing" /\ j = Len(results[r])
                   \/ Cardinality({k \in DispatchesOf(r, s) : calls[r][k].retry}) = 1

\* C23: within one run the steps are dispatched strictly in plan order,
\* starting at step 1 and leaving none out: a dispatch is either the retry of
\* the step dispatched just before or the original attempt of the next step,
\* it is made only when every earlier dispatch has its result recorded (and
\* no recovery is pending), and the k-th recorded result is the result of the
\* k-th dispatch.
C23_SequentialOrder ==
    \A r \in Runs :
        LET log == calls[r]
            inflight == IF pc[r] \in {"working", "retrying", "raised"} THEN 1 ELSE 0
        IN  /\ Len(log) >= 1 => (log[1].step = 1 /\ ~log[1].retry)
            /\ \A j \in 1..(Len(log) - 1) :
                  \/ log[j + 1].step = log[j].step /\ log[j + 1].retry /\ ~log[j].retry
                  \/ log[j + 1].step = log[j].step + 1 /\ ~log[j + 1].retry
            /\ Len(results[r]) = Len(log) - inflight
            /\ pc[r] \in {"working", "healing", "retrying"} => log[Len(log)].step = idx[r]
            /\ pc[r] = "healing" => ~log[Len(log)].retry
            /\ Returned(r) => (IF Len(plan[r]) = 0 THEN Len(log) = 0
                               ELSE log[Len(log)].step = Len(plan[r]))
            /\ \A k \in 1..Len(results[r]) :
                  /\ IsRetryEntry(results[r][k]) <=> log[k].retry
                  /\ IsMiss(log[k]) => Unwrap(results[r][k]) = NoAgentResult(plan[r][log[k].step])

\* a finished run of three different steps, the second of them retried
C23_Witness ==
    /\ Returned(1)
    /\ Len(plan[1]) = 3
    /\ plan[1][1] # plan[1][2]
    /\ plan[1][2] # plan[1][3]
    /\ [k \in 1..Len(calls[1]) |-> calls[1][k].step] = <<1, 2, 2, 3>>
    /\ Len(results[1]) = 4

\* the error text of a result names a failure the orchestrator can recover
\* from
Recoverable(result) ==
    LET text == Lower(Get_error(result))
    IN  StrIn(kw_usb, text) \/ StrIn(kw_vulnerability, text)

\* the healing path as the state shows it: a recovery is pending only for
\* the failed, recoverable original result recorded last, and every retry
\* follows the failed, recoverable original attempt of the same step
HealingPath(r) ==
    /\ pc[r] = "healing" =>
          LET last == results[r][Len(results[r])]
          IN  /\ Len(results[r]) = Len(calls[r])
              /\ ~calls[r][Len(calls[r])].retry
              /\ ~IsRetryEntry(last)
              /\ ~Get_success(last)
              /\ Recoverable(last)
    /\ \A k \in 1..Len(calls[r]) :
          calls[r][k].retry =>
              /\ k > 1
              /\ ~calls[r][k - 1].retry
              /\ calls[r][k - 1].step = calls[r][k].step
              /\ ~Get_success(results[r][k - 1])
              /\ Recoverable(results[r][k - 1])
    /\ \A k \in 1..Len(results[r]) :
          (~calls[r][k].retry /\ ~Get_success(results[r][k]) /\ Recoverable(results[r][k])) =>
              \/ pc[r] = "healing" /\ k = Len(calls[r])
              \/ k < Len(calls[r]) /\ calls[r][k + 1].retry

\* C24: a recovery is executed only after a step's original attempt returned
\* success = false and the classifier found it recoverable; a retry is
\* dispatched exactly for the steps whose recovery has finished (it always
\* reports recovered = true); no recovery follows a retry, and a step whose
\* original attempt succeeded is never dispatched again.
C24_HealingOnlyAfterFailure ==
    \A r \in Runs : HealingPath(r)

\* a finished run in which a worker's failure with a usb error text was
\* healed and retried, the retry failed too and was not healed, and a failure
\* with a timeout text was not healed
C24_Witness ==
    /\ Returned(1)
    /\ Len(plan[1]) = 2
    /\ Len(results[1]) = 3
    /\ ~IsMiss(calls[1][1])
    /\ Get_error(results[1][1]) = err_usb
    /\ calls[1][2].retry
    /\ ~Get_success(Unwrap(results[1][2]))
    /\ Get_error(results[1][3]) = err_timeout

\* C28: for a step no worker is available for, the no-agent error text
\* embeds the step type: if the type contains 'usb' or 'vulnerability' in any
\* case the step is dispatched twice and two failed results are recorded,
\* the second as a retry entry; for any other such step exactly one failed
\* result is recorded and no retry is made.
C28_RoutingMissHealed ==
    \A r \in Runs :
        Returned(r) =>
            \A i \in 1..Len(plan[r]) :
                _select_agent_for_step(plan[r][i], agents) = None =>
                    LET d == DispatchesOf(r, i)
                        type == Lower(plan[r][i])
                    IN  /\ \A k \in d :
                              /\ IsMiss(calls[r][k])
                              /\ ~Get_success(Unwrap(results[r][k]))
                              /\ Get_error(Unwrap(results[r][k])) = NoAgentPrefix \o plan[r][i]
                        /\ IF StrIn(kw_usb, type) \/ StrIn(kw_vulnerability, type)
                           THEN /\ Cardinality(d) = 2
                                /\ \E k \in d : calls[r][k].retry /\ IsRetryEntry(results[r][k])
                           ELSE /\ Cardinality(d) = 1
                                /\ \A k \in d : ~calls[r][k].retry

\* a finished run on a pool with no agent at all: USB_unlock (upper case) was
\* dispatched twice, pattern_analysis once
C28_Witness ==
    /\ Returned(1)
    /\ agents = {}
    /\ plan[1] = <<USB_unlock, pattern_analysis>>
    /\ Len(results[1]) = 3
    /\ IsRetryEntry(results[1][2])

\* C30: in a returned report steps_executed is the number of dispatches, the
\* plan's steps plus the retries; the recorded results hold one entry per
\* dispatch, and every retry entry follows directly the failed original
\* result of the same step.
C30_StepsExecutedCountsDispatches ==
    \A r \in Runs :
        Returned(r) =>
            LET retries == {k \in 1..Len(calls[r]) : calls[r][k].retry}
            IN  /\ report[r].steps_executed = Len(calls[r])
                /\ report[r].steps_executed = Len(plan[r]) + Cardinality(retries)
                /\ Len(results[r]) = Len(calls[r])
                /\ \A k \in 1..Len(results[r]) :
                      IsRetryEntry(results[r][k]) =>
                          /\ k \in retries
                          /\ k > 1
                          /\ ~IsRetryEntry(results[r][k - 1])
                          /\ ~Get_success(results[r][k - 1])
                          /\ calls[r][k - 1].step = calls[r][k].step

\* a report of a three-step plan with two retries
C30_Witness ==
    /\ Returned(1)
    /\ Len(plan[1]) = 3
    /\ report[1].steps_executed = 5
    /\ IsRetryEntry(results[1][2])
    /\ IsRetryEntry(results[1][5])

\* C26 (as claimed): whenever a worker is selected for a step, the
\* capability key the step's type maps to is among the selected worker's
\* declared capabilities.
C26_CapabilityMatch ==
    \A r \in Runs : \A k \in 1..Len(calls[r]) :
        ~IsMiss(calls[r][k]) =>
            agent_mapping[plan[r][calls[r][k].step]] \in capabilities[calls[r][k].agent]

\* C27: when runs interleave, each run's dispatches follow its own plan in
\* its own order, each of its recorded results belongs to one of its own
\* dispatches, a run that has not begun has nothing recorded, and a returned
\* report counts the run's own results and takes its success flag from them
\* alone.
C27_RunsIsolated ==
    \A r \in Runs :
        LET log == calls[r]
            res == results[r]
            inflight == IF pc[r] \in {"working", "retrying", "raised"} THEN 1 ELSE 0
        IN  /\ pc[r] \in {"start", "idle"} => (log = << >> /\ res = << >> /\ report[r] = NoReport)
            /\ Len(res) = Len(log) - inflight
            /\ performs[r] = Cardinality({k \in 1..Len(log) : ~IsMiss(log[k])})
            /\ \A k \in 1..Len(log) :
                  /\ log[k].step \in 1..Len(plan[r])
                  /\ k > 1 => log[k].step \in {log[k - 1].step, log[k - 1].step + 1}
                  /\ log[k].agent = _select_agent_for_step(plan[r][log[k].step], agents)
            /\ \A k \in 1..Len(res) :
                  IsMiss(log[k]) => Get_error(Unwrap(res[k])) = NoAgentPrefix \o plan[r][log[k].step]
            /\ Returned(r) =>
                  /\ \A i \in 1..Len(plan[r]) : DispatchesOf(r, i) # {}
                  /\ report[r].steps_executed = Len(res)
                  /\ report[r].success <=>
                         \A i \in 1..Len(plan[r]) :
                             \A k \in DispatchesOf(r, i) : ~log[k].retry => Get_success(res[k])

\* two returned runs of different plans that used the same worker, one
\* reporting success and the other failure
C27_Witness ==
    /\ Returned(1)
    /\ Returned(2)
    /\ Len(plan[1]) = 2
    /\ Len(plan[2]) = 1
    /\ plan[2][1] = plan[1][2]
    /\ ~IsMiss(calls[2][1])
    /\ report[1].success
    /\ ~report[2].success
    /\ Len(results[2]) = 2

---------------------------------------------------------------------------
(* Properties of the strategy planner *)

PlanCreated ==
    unlock_plan # NoPlan

AlternativesReturned ==
    alternatives # NoAlternatives

\* the analysis lists lock l
HasLock(l) ==
    /\ "lock_detection" \in DOMAIN analysis
    /\ l \in analysis.lock_detection.locks

NumLocks ==
    IF "lock_detection" \in DOMAIN analysis
    THEN Cardinality(analysis.lock_detection.locks) ELSE 0

\* the analysis names manufacturer m, compared as the selection compares it
\* (lower-cased)
IsMaker(m) ==
    /\ "device_identification" \in DOMAIN analysis
    /\ Lower(analysis.device_identification.manufacturer) = m

\* C8: the strategy of a created plan is given by the ordered rule list, first
\* match wins: BOOTLOADER_ACCESS if bootloader_lock and samsung, else
\* VULNERABILITY_EXPLOIT if frp_lock and google, else CUSTOM_TOOL if
\* icloud_lock, else COMBINATION if more than 2 locks, else DIRECT_BYPASS; so
\* bootloader_lock with samsung gives BOOTLOADER_ACCESS whatever else is locked.
C8_FirstMatchWins ==
    PlanCreated =>
        /\ unlock_plan.strategy =
              CASE HasLock("bootloader_lock") /\ IsMaker(m_samsung) -> "BOOTLOADER_ACCESS"
                [] ~(HasLock("bootloader_lock") /\ IsMaker(m_samsung))
                   /\ HasLock("frp_lock") /\ IsMaker(m_google) -> "VULNERABILITY_EXPLOIT"
                [] ~(HasLock("bootloader_lock") /\ IsMaker(m_samsung))
                   /\ ~(HasLock("frp_lock") /\ IsMaker(m_google))
                   /\ HasLock("icloud_lock") -> "CUSTOM_TOOL"
                [] ~(HasLock("bootloader_lock") /\ IsMaker(m_samsung))
                   /\ ~(HasLock("frp_lock") /\ IsMaker(m_google))
                   /\ ~HasLock("icloud_lock")
                   /\ NumLocks > 2 -> "COMBINATION"
                [] OTHER -> "DIRECT_BYPASS"
        /\ (HasLock("bootloader_lock") /\ IsMaker(m_samsung))
              => unlock_plan.strategy = "BOOTLOADER_ACCESS"

\* a plan for a samsung device with bootloader_lock, icloud_lock and more than
\* two locks: the later rules match too
C8_Witness ==
    /\ PlanCreated
    /\ HasLock("bootloader_lock")
    /\ HasLock("icloud_lock")
    /\ NumLocks > 2
    /\ IsMaker(m_samsung)
    /\ unlock_plan.strategy = "BOOTLOADER_ACCESS"

\* C9: neither the plan's fallback_strategies nor the list get_alternatives
\* returns contains the primary strategy.
C9_FallbacksExcludePrimary ==
    /\ PlanCreated =>
          \A k \in DOMAIN unlock_plan.fallback_strategies :
              unlock_plan.fallback_strategies[k].strategy # unlock_plan.strategy
    /\ AlternativesReturned =>
          \A k \in DOMAIN alternatives :
              /\ alternatives[k].strategy # _select_optimal_strategy(analysis)
              /\ PlanCreated => alternatives[k].strategy # unlock_plan.strategy

\* a plan with two fallbacks and a list of five alternatives for the same
\* device, whose primary strategy is the first of the enumeration
C9_Witness ==
    /\ PlanCreated
    /\ AlternativesReturned
    /\ unlock_plan.strategy = UnlockStrategy[1]
    /\ Len(unlock_plan.fallback_strategies) = 2
    /\ Len(alternatives) = 5

\* C10 (as claimed): the plan's fallback_strategies are the two non-primary
\* strategies of highest success probability, in descending order.
C10_FallbacksAreTopTwo ==
    PlanCreated =>
        LET fb == unlock_plan.fallback_strategies
            listed == {fb[k].strategy : k \in DOMAIN fb}
            others == Strategies \ {unlock_plan.strategy}
        IN  /\ Len(fb) = 2
            /\ \A k \in DOMAIN fb : fb[k].success_probability = strategy_success[fb[k].strategy]
            /\ \A k \in 1..(Len(fb) - 1) : fb[k].success_probability >= fb[k + 1].success_probability
            /\ \A s \in others \ listed : \A k \in DOMAIN fb :
                  strategy_success[s] <= fb[k].success_probability

\* the alternatives are in descending order of success probability
AlternativesDescending ==
    \A k \in 1..(Len(alternatives) - 1) :
        alternatives[k].success_probability >= alternatives[k + 1].success_probability

\* C11 (as claimed): get_alternatives returns at most two entries, in
\* descending order of success probability.
C11_AtMostTwoAlternatives ==
    AlternativesReturned =>
        /\ Len(alternatives) <= 2
        /\ AlternativesDescending

\* the planner's own state and everything else a get_alternatives call could
\* touch besides its return value
AllButAlternatives ==
    <<orch_vars, analysis, strategy_success, unlock_plan, strategy_database>>

\* C12: get_alternatives is deterministic and leaves the planner unchanged:
\* once a list was returned for the device, no later step (another
\* get_alternatives call, initialize, create_unlock_plan, any step of a plan
\* run) makes a call return a different list, and the call that returns a
\* list changes nothing else.
C12_AlternativesDeterministic ==
    [][/\ AlternativesReturned => alternatives' = alternatives
       /\ alternatives' # alternatives => UNCHANGED AllButAlternatives]_vars

\* a list was returned, and initialize, create_unlock_plan and a plan run with
\* a healing pass have happened as well
C12_Witness ==
    /\ AlternativesReturned
    /\ Len(alternatives) = 5
    /\ strategy_database # EmptyDict
    /\ PlanCreated
    /\ Returned(1)
    /\ \E j \in DOMAIN calls[1] : calls[1][j].retry

\* C13 (as claimed): every plan create_unlock_plan returns has at least one
\* step.
C13_PlanHasSteps ==
    PlanCreated => Len(unlock_plan.steps) >= 1

\* what _assess_risks reads from an analysis
ManufacturerOf(a) ==
    Get(Get(a, "device_identification", EmptyDict), "manufacturer", EmptyStr)

LocksOf(a) ==
    Get(Get(a, "lock_detection", EmptyDict), "locks", {})

\* C14: the risk assessment of a plan is a function of the analysis's
\* manufacturer and locks alone: brick probability is 0.3 exactly when
\* bootloader_lock is among the locks and 0.0 otherwise, warranty_void is
\* true, every analysis with the same manufacturer and locks gets the same
\* assessment, and this holds whatever plan runs and planner calls came before.
C14_RiskAssessmentPure ==
    PlanCreated =>
        LET ra == unlock_plan.risk_assessment
        IN  /\ ra.brick_probability = IF "bootloader_lock" \in LocksOf(analysis) THEN 30 ELSE 0
            /\ ra.warranty_void = TRUE
            /\ \A a \in Analyses :
                  (ManufacturerOf(a) = ManufacturerOf(analysis) /\ LocksOf(a) = LocksOf(analysis))
                      => _assess_risks(a) = ra

\* a plan for a non-Samsung device with bootloader_lock, assessed at 0.3,
\* with a finished plan run that went through healing and a retry
C14_Witness ==
    /\ PlanCreated
    /\ HasLock("bootloader_lock")
    /\ IsMaker(m_google)
    /\ unlock_plan.risk_assessment.brick_probability = 30
    /\ Returned(1)
    /\ \E j \in DOMAIN calls[1] : calls[1][j].retry

\* C15 (as claimed): create_unlock_plan returns a plan only for an analysis
\* that has its required fields (device_identification with a manufacturer,
\* lock_detection with the locks); for any other it fails and returns none.
C15_NoPlanWithoutFields ==
    PlanCreated =>
        /\ "device_identification" \in DOMAIN analysis
        /\ "manufacturer" \in DOMAIN analysis.device_identification
        /\ "lock_detection" \in DOMAIN analysis
        /\ "locks" \in DOMAIN analysis.lock_detection

\* C17 (as claimed): a worker's status only moves idle -> working ->
\* {completed, error} -> idle, and when a run has returned or raised every
\* worker is back in idle.
C17_StatusCycle ==
    [][/\ \A a \in AgentKeys :
             status'[a] # status[a] =>
                 \/ status[a] = "idle" /\ status'[a] = "working"
                 \/ status[a] = "working" /\ status'[a] \in {"completed", "error"}
                 \/ status[a] \in {"completed", "error"} /\ status'[a] = "idle"
       /\ \A r \in Runs :
             pc'[r] \in {"done", "raised"} => \A a \in AgentKeys : status'[a] = "idle"]_vars

\* run r is suspended inside execute_task of worker a
InProgress(r, a) ==
    /\ pc[r] \in {"working", "retrying"}
    /\ calls[r][Len(calls[r])].agent = a

\* the step starts a task of run r on worker a
StartsTask(r, a) ==
    /\ performs'[r] > performs[r]
    /\ calls'[r][Len(calls'[r])].agent = a

\* C18 (as claimed): a worker that is working for one run rejects a step
\* another run dispatches to it: the second call does not start the task.
C18_BusyWorkerRejects ==
    [][\A r, q \in Runs : \A a \in AgentKeys :
          (r # q /\ InProgress(q, a) /\ status[a] = "working") => ~StartsTask(r, a)]_vars

\* C19 (as claimed): at most one run of a given worker is in progress at any
\* time.
C19_MutualExclusion ==
    \A a \in AgentKeys : \A r, q \in Runs :
        (InProgress(r, a) /\ InProgress(q, a)) => r = q

---------------------------------------------------------------------------
(* Properties of the self-healing system *)

\* the lower-cased message of call h's error contains kw
MessageHas(h, kw) ==
    StrIn(kw, Lower(he_error[h].message))

\* the conditions of the four matching branches, for call h's error
IsUsbError(h) ==
    StrIn(kw_USB, he_error[h].error_type) \/ MessageHas(h, kw_usb)

IsDriverError(h) ==
    MessageHas(h, kw_driver) \/ MessageHas(h, kw_permission)

IsCommunicationError(h) ==
    MessageHas(h, kw_timeout) \/ MessageHas(h, kw_connection)

IsSecurityError(h) ==
    MessageHas(h, kw_security) \/ MessageHas(h, kw_lock)

\* C16: _analyze_error returns the tuple of the first matching branch only, in
\* the order usb (kind contains 'USB' or message contains 'usb') ->
\* usb_connection_reset 0.85, driver/permission -> driver_reinstallation
\* 0.75, timeout/connection -> communication_retry 0.90, security/lock ->
\* alternative_unlock_method 0.65, otherwise generic_retry 0.50 with manual
\* suggestions; the message is matched without regard to case.
C16_FirstBranchClassifies ==
    \A h \in Handlers :
        handler_pc[h] = "analyzed" =>
            LET p == he_recovery_plan[h]
                tuple == <<p.method, p.confidence, p.estimated_time>>
            IN  /\ p.can_recover
                /\ tuple =
                     CASE IsUsbError(h) -> <<"usb_connection_reset", 85, "30 seconds">>
                       [] ~IsUsbError(h) /\ IsDriverError(h) -> <<"driver_reinstallation", 75, "2 minutes">>
                       [] ~IsUsbError(h) /\ ~IsDriverError(h) /\ IsCommunicationError(h)
                             -> <<"communication_retry", 90, "1 minute">>
                       [] ~IsUsbError(h) /\ ~IsDriverError(h) /\ ~IsCommunicationError(h)
                          /\ IsSecurityError(h) -> <<"alternative_unlock_method", 65, "5 minutes">>
                       [] OTHER -> <<"generic_retry", 50, "1 minute">>
                /\ (p.manual_suggestions # << >>) <=> (p.method = "generic_retry")

\* an error of kind UsbError (no 'USB' in it) with the message
\* "Permission TIMEOUT", which the driver and the timeout branch both match,
\* in another case than the keywords: classified as driver_reinstallation
C16_Witness ==
    /\ handler_pc[1] = "analyzed"
    /\ he_error[1].error_type = ty_UsbError
    /\ he_error[1].message = wd_Permission \o <<" ">> \o wd_TIMEOUT
    /\ he_recovery_plan[1].method = "driver_reinstallation"
    /\ he_recovery_plan[1].confidence = 75

\* C20: when the recovery method or the classification raises inside
\* handle_error, the call returns success = false and recovered = false (it
\* does not raise), has started at most one recovery, and the incident it
\* recorded for the error is unresolved.
C20_RecoveryFailureTerminal ==
    \A h \in Handlers :
        fault[h] # "none" =>
            /\ handler_pc[h] = "returned"
            /\ he_recovery_result[h].success = FALSE
            /\ he_recovery_result[h].recovered = FALSE
            /\ recoveries[h] <= 1
            /\ fault[h] = "recovery" => recoveries[h] = 1
            /\ LET inc == incident_history[he_incident[h]]
               IN  /\ inc.error_type = he_error[h].error_type
                   /\ inc.message = he_error[h].message
                   /\ inc.resolved = FALSE

\* one call whose recovery method raised and one whose classification raised
C20_Witness ==
    \E h, g \in Handlers :
        /\ fault[h] = "recovery"
        /\ fault[g] = "classification"
        /\ handler_pc[h] = "returned"
        /\ handler_pc[g] = "returned"

---------------------------------------------------------------------------
(* Properties of the service boundary *)

\* C21 (as claimed): whenever a plan run ends with success = false, what
\* start_unlock returns holds the execution report together with the
\* planner's alternatives.
C21_FailureReturnsAlternatives ==
    \A r \in Runs :
        (response[r] # NoResponse /\ pc[r] = "done" /\ ~report[r].success) =>
            /\ "result" \in DOMAIN response[r]
            /\ "alternative_methods" \in DOMAIN response[r]

\* C22 (as claimed): a cancellation requested while a step is running takes
\* effect only after that step completed, and the run then returns a report
\* with final status cancelled holding the results of the steps executed.
C22_CancelBetweenSteps ==
    \A r \in Runs :
        pc[r] = "cancelled" =>
            /\ \A a \in AgentKeys : status[a] # "working"
            /\ report[r] # NoReport
            /\ report[r].final_status = "cancelled"
            /\ report[r].steps_executed = Len(results[r])

\* what identifies an incident: the fields written when it is recorded
IncidentKey(inc) ==
    <<inc.error_type, inc.context, inc.message>>

\* call h of handle_error begins in this step
Begins(h) ==
    handler_pc[h] = "start" /\ handler_pc'[h] # "start"

\* C25: the incident history is append-only: no step of handle_error or
\* get_status removes, reorders or replaces an earlier incident; the history
\* grows exactly when a handle_error call begins, by the one unresolved
\* incident of that call's error, and that is before the call's recovery is
\* started.
C25_IncidentHistoryAppendOnly ==
    [][LET old == incident_history
           new == incident_history'
       IN  /\ Len(new) >= Len(old)
           /\ \A k \in 1..Len(old) : IncidentKey(new[k]) = IncidentKey(old[k])
           /\ \A h \in Handlers :
                 Begins(h) =>
                     /\ Len(new) = Len(old) + 1
                     /\ IncidentKey(new[Len(new)]) =
                            <<he_error'[h].error_type, he_error'[h].context, he_error'[h].message>>
                     /\ new[Len(new)].resolved = FALSE
                     /\ he_incident'[h] = Len(new)
           /\ (\A h \in Handlers : ~Begins(h)) => Len(new) = Len(old)
           /\ \A h \in Handlers :
                 recoveries'[h] > recoveries[h] => he_incident'[h] \in 1..Len(new)
           /\ status_report' # status_report => new = old]_vars

\* two calls have returned, their incidents are in the history in the order
\* of the calls, the first one resolved, and get_status was called when only
\* the first was recorded
C25_Witness ==
    /\ Len(incident_history) = 2
    /\ \A h \in Handlers : handler_pc[h] = "returned"
    /\ IncidentKey(incident_history[1]) # IncidentKey(incident_history[2])
    /\ incident_history[1].resolved
    /\ status_report # NoStatusReport
    /\ status_report.incidents_handled = 1

\* C29: _analyze_error finds every error recoverable, so every handle_error
\* call in which the classification does not raise starts a recovery, and
\* the 'No automatic recovery method available' dict is never returned.
C29_AlwaysRecoverable ==
    \A h \in Handlers :
        (handler_pc[h] \in {"recovering", "returned"} /\ fault[h] # "classification") =>
            /\ he_recovery_plan[h].can_recover
            /\ recoveries[h] = 1
            /\ handler_pc[h] = "returned" =>
                  /\ he_recovery_result[h] # NoRecoveryAvailable(he_recovery_plan[h])
                  /\ "reason" \notin DOMAIN he_recovery_result[h]

\* a returned call for an error no branch matches (kind RuntimeError, message
\* "failure"), recovered by generic_retry
C29_Witness ==
    /\ handler_pc[1] = "returned"
    /\ he_error[1].error_type = ty_RuntimeError
    /\ he_error[1].message = wd_failure
    /\ he_recovery_plan[1].method = "generic_retry"
    /\ recoveries[1] = 1
    /\ he_recovery_result[1].recovered

---------------------------------------------------------------------------
(* Properties of the report, of termination and of the worker status *)

\* C31: in every report returned by execute_unlock_plan, final_status is
\* either unlocked or partially_locked, and it is unlocked if and only if
\* success is true; for a plan with no steps the report is success = true,
\* unlocked, with steps_executed = 0.
C31_FinalStatusFollowsSuccess ==
    \A r \in Runs :
        Returned(r) =>
            /\ report[r].final_status \in {"unlocked", "partially_locked"}
            /\ (report[r].final_status = "unlocked") <=> report[r].success
            /\ plan[r] = << >> =>
                  /\ report[r].success
                  /\ report[r].final_status = "unlocked"
                  /\ report[r].steps_executed = 0

\* a returned run whose last recorded entry is a successful retry of a step
\* whose original attempt failed: success is false and the status is
\* partially_locked
C31_Witness ==
    \E r \in Runs :
        /\ Returned(r)
        /\ results[r] # << >>
        /\ IsRetryEntry(results[r][Len(results[r])])
        /\ Get_success(results[r][Len(results[r])].retry_result)
        /\ ~report[r].success
        /\ report[r].final_status = "partially_locked"

\* a returned run of the empty plan
C31_EmptyPlanReturned ==
    \E r \in Runs :
        /\ Returned(r)
        /\ plan[r] = << >>
        /\ report[r] = [success |-> TRUE, steps_executed |-> 0, final_status |-> "unlocked"]

\* execute_unlock_plan has returned its report or raised
Finished(r) ==
    pc[r] \in {"done", "raised"}

\* C32: every plan run terminates: for a plan of n steps, provided each
\* worker run and each recovery returns, execute_unlock_plan returns a
\* report (or raises) after at most 2n dispatches and at most n recoveries.
C32_PlanRunTerminates ==
    /\ [](\A r \in Runs :
            /\ Len(calls[r]) <= 2 * Len(plan[r])
            /\ heals[r] <= Len(plan[r]))
    /\ <>(\A r \in Runs : pc[r] # "idle" => Finished(r))

\* a returned run of a three-step plan that used all 2n dispatches and all
\* n recoveries
C32_Witness ==
    /\ Returned(1)
    /\ Len(plan[1]) = MaxSteps
    /\ Len(calls[1]) = 2 * MaxSteps
    /\ heals[1] = MaxSteps

\* the k-th _execute_step call that went to a worker and has come back
\* produced the k-th entry of results; a call that left by an exception
\* produced none
LastTaskExited(r) ==
    /\ calls[r] # << >>
    /\ calls[r][Len(calls[r])].agent # None
    /\ pc[r] \notin {"working", "retrying"}

LastTaskReturned(r) ==
    Len(results[r]) = Len(calls[r])

\* C33 (as claimed): a worker's status after execute_task is completed
\* exactly when the task returned normally (even when the returned result
\* has success = false) and error exactly when the task raised, in which
\* case the exception is re-raised to the dispatcher.
C33_StatusFollowsOutcome ==
    \A r \in Runs :
        LastTaskExited(r) =>
            LET a == calls[r][Len(calls[r])].agent
            IN  /\ status[a] \in {"completed", "error"}
                /\ (status[a] = "completed") <=> LastTaskReturned(r)
                /\ (status[a] = "error") <=> ~LastTaskReturned(r)
                /\ ~LastTaskReturned(r) => pc[r] \in {"raised", "cancelled"}

---------------------------------------------------------------------------
(* Properties of the incident record and of get_status *)

\* the handle_error call that recorded incident k ran a recovery to its end
RecoveryExecuted(k) ==
    \E h \in Handlers :
        /\ he_incident[h] = k
        /\ recoveries[h] = 1
        /\ handler_pc[h] = "returned"
        /\ fault[h] # "classification"

\* ... and the recovery's dict, which the call returned, has success = true
RecoveryReportedSuccess(k) ==
    \E h \in Handlers :
        /\ he_incident[h] = k
        /\ recoveries[h] = 1
        /\ handler_pc[h] = "returned"
        /\ he_recovery_result[h].success = TRUE

\* the pair <<numerator, denominator>> stands for the quotient p / q
RateEquals(rate, p, q) ==
    rate[1] * q = p * rate[2]

\* C34: an incident's resolved flag is true only if a recovery was executed
\* for it and reported success, and its recovery_method is set only when a
\* recovery was executed; get_status's success_rate equals resolved
\* incidents divided by all incidents, is 0 for an empty history, and always
\* lies in [0, 1].
C34_ResolvedOnlyAfterRecovery ==
    LET n == Len(incident_history)
        resolved == {k \in 1..n : incident_history[k].resolved}
        rate == get_status.success_rate
    IN  /\ \A k \in 1..n :
              /\ incident_history[k].resolved => RecoveryExecuted(k) /\ RecoveryReportedSuccess(k)
              /\ "recovery_method" \in DOMAIN incident_history[k] => RecoveryExecuted(k)
        /\ rate[2] > 0
        /\ n > 0 => RateEquals(rate, Cardinality(resolved), n)
        /\ n = 0 => rate[1] = 0
        /\ 0 <= rate[1] /\ rate[1] <= rate[2]
        /\ status_report # NoStatusReport =>
              /\ status_report.success_rate[2] > 0
              /\ status_report.success_rate[1] <= status_report.success_rate[2]
              /\ status_report.incidents_handled = 0 => status_report.success_rate[1] = 0

\* two incidents, one resolved by its recovery and one whose recovery raised
\* (recovery_method set, resolved false), and a get_status report of 1 / 2
C34_Witness ==
    /\ Len(incident_history) = 2
    /\ \E j, k \in 1..2 :
          /\ incident_history[j].resolved
          /\ ~incident_history[k].resolved
          /\ "recovery_method" \in DOMAIN incident_history[k]
    /\ status_report # NoStatusReport
    /\ status_report.success_rate = <<1, 2>>

---------------------------------------------------------------------------
(* Manufacturer matching in selection and in risk assessment *)

\* C35: manufacturer matching differs between selection and risk
\* assessment: strategy selection compares the lower-cased manufacturer,
\* while the data-loss probability is 0.1 exactly when frp_lock is present
\* and the manufacturer string is exactly 'samsung' (case-sensitive) and 0.0
\* otherwise; so for an analysis with manufacturer 'Samsung' and locks
\* {frp_lock, bootloader_lock} the strategy is BOOTLOADER_ACCESS while the
\* data-loss probability stays 0.0.
C35_ManufacturerCaseDiffers ==
    PlanCreated =>
        LET maker == ManufacturerOf(analysis)
            data_loss == unlock_plan.risk_assessment.data_loss_probability
        IN  /\ data_loss = IF HasLock("frp_lock") /\ maker = m_samsung THEN 10 ELSE 0
            /\ (HasLock("bootloader_lock") /\ maker \in {m_samsung, m_Samsung})
                  => unlock_plan.strategy = "BOOTLOADER_ACCESS"
            /\ (HasLock("frp_lock") /\ ~HasLock("bootloader_lock") /\ maker = m_google)
                  => unlock_plan.strategy = "VULNERABILITY_EXPLOIT"
            /\ (maker = m_Samsung /\ LocksOf(analysis) = {"frp_lock", "bootloader_lock"})
                  => /\ unlock_plan.strategy = "BOOTLOADER_ACCESS"
                     /\ data_loss = 0

\* a plan for manufacturer 'Samsung' with locks {frp_lock, bootloader_lock}
C35_Witness ==
    /\ PlanCreated
    /\ ManufacturerOf(analysis) = m_Samsung
    /\ LocksOf(analysis) = {"frp_lock", "bootloader_lock"}
    /\ unlock_plan.strategy = "BOOTLOADER_ACCESS"
    /\ unlock_plan.risk_assessment.data_loss_probability = 0

---------------------------------------------------------------------------
(* Properties of the process log *)

\* C36: the process log is bounded: after any sequence of update_progress /
\* _log_event calls, process_logs holds at most 1000 entries, and they are
\* the most recent events in the order they were logged.
C36_ProcessLogBounded ==
    LET n == Len(logged_events)
        k == IF n > MaxLogEntries THEN MaxLogEntries ELSE n
    IN  /\ Len(process_logs) <= MaxLogEntries
        /\ Len(process_logs) = k
        /\ \A j \in 1..k : process_logs[j] = logged_events[n - k + j]

\* three more events than the log keeps, the last two of different types
C36_Witness ==
    /\ Len(logged_events) = MaxLogEntries + 3
    /\ Len(process_logs) = MaxLogEntries
    /\ process_logs[MaxLogEntries].type = "error"
    /\ process_logs[MaxLogEntries - 1].type = "progress_update"
    /\ process_logs[1] = logged_events[4]

=============================================================================
